---- MODULE Spec2Model ----
(***************************************************************************)
(* The text command interpreter of src/src/chat/index.ts (intent           *)
(* extraction, plan expansion, chain resolution, action execution) and the *)
(* inspector server of src/src/index.ts (generation, persistence,          *)
(* preferences, broadcast).                                                *)
(*                                                                         *)
(* A text is a sequence of one-character strings, so that the regular      *)
(* expressions of the source are matched character by character.  A        *)
(* regular expression is modelled by the set of positions at which a match *)
(* that started in a given set of positions can end.                       *)
(***************************************************************************)
EXTENDS Integers, Sequences, FiniteSets, TLC

(***************************************************************************)
(* Bounds of the model                                                     *)
(***************************************************************************)
\* the longest text, in phrases of the vocabulary
MaxPhrases == 2

\* the longest list of tree types of a plan
MaxTypes == 2

\* the largest count and per_type of a plan
MaxCount == 3

\* the number of requests the inspector server receives
MaxRequests == 3

\* the largest number of calls to the external model
MaxCalls == 1

(***************************************************************************)
(* Characters                                                              *)
(***************************************************************************)
LowerChars ==
  <<"a", "b", "c", "d", "e", "f", "g", "h", "i", "j", "k", "l", "m",
    "n", "o", "p", "q", "r", "s", "t", "u", "v", "w", "x", "y", "z">>

UpperChars ==
  <<"A", "B", "C", "D", "E", "F", "G", "H", "I", "J", "K", "L", "M",
    "N", "O", "P", "Q", "R", "S", "T", "U", "V", "W", "X", "Y", "Z">>

DigitChars == <<"0", "1", "2", "3", "4", "5", "6", "7", "8", "9">>

LowerSet == {LowerChars[i] : i \in 1..26}

UpperSet == {UpperChars[i] : i \in 1..26}

DigitSet == {DigitChars[i] : i \in 1..10}

WordChars == LowerSet \cup UpperSet \cup DigitSet \cup {"_"}

SpaceChars == {" ", "\n", "\t", "\r"}

\* \w of a regular expression
isWordChar(c) == c \in WordChars

\* \s of a regular expression
isSpace(c) == c \in SpaceChars

isDigit(c) == c \in DigitSet

LowerOf ==
  [c \in UpperSet |-> LowerChars[CHOOSE i \in 1..26 : UpperChars[i] = c]]

UpperOf ==
  [c \in LowerSet |-> UpperChars[CHOOSE i \in 1..26 : LowerChars[i] = c]]

toLowerChar(c) == IF c \in UpperSet THEN LowerOf[c] ELSE c

toUpperChar(c) == IF c \in LowerSet THEN UpperOf[c] ELSE c

\* String.prototype.toLowerCase
toLowerCase(s) == [i \in 1..Len(s) |-> toLowerChar(s[i])]

\* String.prototype.toUpperCase
toUpperCase(s) == [i \in 1..Len(s) |-> toUpperChar(s[i])]

Min(S) == CHOOSE x \in S : \A y \in S : x <= y

Max(S) == CHOOSE x \in S : \A y \in S : x >= y

(***************************************************************************)
(* Regular expressions: a pattern maps a set P of start positions to the   *)
(* set of positions where a match can end.  Position p is the place before *)
(* the p-th character; Len(s) + 1 is the end of the text.                  *)
(***************************************************************************)
Positions(s) == 1..(Len(s) + 1)

\* the literal w occurs in s at position p
LitAt(s, p, w) ==
  /\ p + Len(w) - 1 <= Len(s)
  /\ \A i \in 1..Len(w) : s[p + i - 1] = w[i]

\* (w1|w2|...)
AfterAlt(s, P, W) ==
  UNION {{p + Len(w) : p \in {q \in P : LitAt(s, q, w)}} : w \in W}

\* \s+
AfterSpaces1(s, P) ==
  {q \in Positions(s) :
     \E p \in P : p < q /\ \A i \in p..(q - 1) : isSpace(s[i])}

\* \s*
AfterSpaces0(s, P) == P \cup AfterSpaces1(s, P)

\* \b
AtBoundary(s, p) ==
  LET before == p > 1 /\ isWordChar(s[p - 1])
      after  == p <= Len(s) /\ isWordChar(s[p])
  IN  before # after

OnBoundary(s, P) == {p \in P : AtBoundary(s, p)}

\* (a\s+)?
AfterOptArticle(s, P) == P \cup AfterSpaces1(s, AfterAlt(s, P, {<<"a">>}))

\* \d{1,3}
AfterDigits1to3(s, P) ==
  {q \in Positions(s) :
     \E p \in P : q - p \in 1..3 /\ \A i \in p..(q - 1) : isDigit(s[i])}

\* RegExp.prototype.test of a pattern without anchors
RegexTest(Pat(_, _), s) == Pat(s, Positions(s)) # {}

\* String.prototype.search: the 0-based index of the leftmost match, or -1
RegexSearch(Pat(_, _), s) ==
  LET starts == {p \in Positions(s) : Pat(s, {p}) # {}}
  IN  IF starts = {} THEN -1 ELSE Min(starts) - 1

\* parseInt(digits, 10) of a non-empty run of digits
RECURSIVE parseInt(_)
parseInt(d) ==
  IF Len(d) = 0
    THEN 0
    ELSE 10 * parseInt(SubSeq(d, 1, Len(d) - 1))
         + ((CHOOSE i \in 1..10 : DigitChars[i] = d[Len(d)]) - 1)

(***************************************************************************)
(* Intent extractor (src/src/chat/index.ts)                                *)
(***************************************************************************)
\* make|create|generate|produce|spawn
DekuVerbs ==
  { <<"m", "a", "k", "e">>, <<"c", "r", "e", "a", "t", "e">>,
    <<"g", "e", "n", "e", "r", "a", "t", "e">>,
    <<"p", "r", "o", "d", "u", "c", "e">>, <<"s", "p", "a", "w", "n">> }

\* make|create|generate|produce|spawn|plant|grow|seed|sprout|raise
TreeVerbs ==
  DekuVerbs \cup
  { <<"p", "l", "a", "n", "t">>, <<"g", "r", "o", "w">>,
    <<"s", "e", "e", "d">>, <<"s", "p", "r", "o", "u", "t">>,
    <<"r", "a", "i", "s", "e">> }

\* don't|do not|never|no
NegationWords ==
  { <<"d", "o", "n", "'", "t">>, <<"d", "o", " ", "n", "o", "t">>,
    <<"n", "e", "v", "e", "r">>, <<"n", "o">> }

\* the verbs of the negation pattern of wantsTree and wantsDeku
NegationVerbs == DekuVerbs

s_tree == <<"t", "r", "e", "e">>

s_sapling == <<"s", "a", "p", "l", "i", "n", "g">>

s_deku == <<"d", "e", "k", "u">>

s_teku == <<"t", "e", "k", "u">>

s_trees == <<"t", "r", "e", "e", "s">>

s_saplings == <<"s", "a", "p", "l", "i", "n", "g", "s">>

s_plant == <<"p", "l", "a", "n", "t">>

s_nuts == <<"n", "u", "t", "s">>

s_nut == <<"n", "u", "t">>

\* /(don't|do not|never|no)\s+(make|create|generate|produce|spawn)\b/
negation(t, P) ==
  OnBoundary(t, AfterAlt(t, AfterSpaces1(t, AfterAlt(t, P, NegationWords)),
                         NegationVerbs))

\* /(make|create|generate|produce|spawn)\s+(a\s+)?(deku|teku)\b/
dekuVerbPhrase(t, P) ==
  OnBoundary(t, AfterAlt(t, AfterOptArticle(t, AfterSpaces1(t,
                   AfterAlt(t, P, DekuVerbs))), {s_deku, s_teku}))

\* /\bdeku\b/
dekuWord(t, P) == OnBoundary(t, AfterAlt(t, OnBoundary(t, P), {s_deku}))

wantsDeku(text) ==
  LET t == toLowerCase(text)
  IN  IF RegexTest(negation, t)
        THEN FALSE
        ELSE RegexTest(dekuVerbPhrase, t) \/ RegexTest(dekuWord, t)

\* /(make|...|raise)\s+(a\s+)?(tree|sapling)\b/
verbs(t, P) ==
  OnBoundary(t, AfterAlt(t, AfterOptArticle(t, AfterSpaces1(t,
                   AfterAlt(t, P, TreeVerbs))), {s_tree, s_sapling}))

\* /^tree\b/
treeAtStart(t, P) == OnBoundary(t, AfterAlt(t, P \cap {1}, {s_tree}))

\* /\bplant\s+(a\s+)?sapling\b/
plantSapling(t, P) ==
  OnBoundary(t, AfterAlt(t, AfterOptArticle(t, AfterSpaces1(t,
                   AfterAlt(t, OnBoundary(t, P), {s_plant}))), {s_sapling}))

wantsTree(text) ==
  LET t == toLowerCase(text)
  IN  IF RegexTest(negation, t)
        THEN FALSE
        ELSE \/ RegexTest(verbs, t)
             \/ RegexTest(treeAtStart, t)
             \/ RegexTest(plantSapling, t)

\* the guardrail of countTrees and countDeku
MaxRepeat == 100

\* the matches <<start, first digit, after last digit>> of
\* /(verb)\s+(\d{1,3})\s+(noun)/ followed by the pattern Noun
QuantityMatches(t, Verbs, Noun(_, _)) ==
  UNION {
    UNION {
      {<<p, a, b>> :
         b \in {q \in AfterDigits1to3(t, {a}) :
                  Noun(t, AfterSpaces1(t, {q})) # {}}} :
      a \in AfterSpaces1(t, AfterAlt(t, {p}, Verbs))} :
    p \in Positions(t)}

\* the count of a quantity match without the guardrail n > 0 && n <= 100
QuantityOfUnguarded(t, M) ==
  IF M = {}
    THEN 1
    ELSE LET m == CHOOSE x \in M : \A y \in M : x[1] <= y[1]
         IN  parseInt(SubSeq(t, m[2], m[3] - 1))

\* the count a quantity match yields: group 1 of the leftmost match
QuantityOf(t, M) ==
  IF M = {}
    THEN 1
    ELSE LET m == CHOOSE x \in M : \A y \in M : x[1] <= y[1]
             n == parseInt(SubSeq(t, m[2], m[3] - 1))
         IN  IF n > 0 /\ n <= MaxRepeat THEN n ELSE 1

\* (trees|saplings)\b
treesTail(t, P) == OnBoundary(t, AfterAlt(t, P, {s_trees, s_saplings}))

countTrees(text) ==
  LET t == toLowerCase(text)
  IN  QuantityOf(t, QuantityMatches(t, TreeVerbs, treesTail))

\* deku\s+nuts?\b
dekuNutsTail(t, P) ==
  OnBoundary(t, AfterAlt(t, AfterSpaces1(t, AfterAlt(t, P, {s_deku})),
                         {s_nut, s_nuts}))

countDeku(text) ==
  LET t == toLowerCase(text)
  IN  QuantityOf(t, QuantityMatches(t, DekuVerbs, dekuNutsTail))

(***************************************************************************)
(* JSON values as JavaScript sees them.  A string is a sequence of         *)
(* characters, an array a sequence of values, an object a function from    *)
(* its keys to their values together with the keys in insertion order.     *)
(***************************************************************************)
Undefined == [t |-> "undefined"]

JNull == [t |-> "null"]

NaN == [t |-> "NaN"]

JBool(b) == [t |-> "boolean", v |-> b]

JNum(n) == [t |-> "number", v |-> n]

\* a number with a fraction, kept as its text
JDec(s) == [t |-> "decimal", v |-> s]

JStr(s) == [t |-> "string", v |-> s]

JArr(a) == [t |-> "array", v |-> a]

JObj(keys, f) == [t |-> "object", v |-> f, keys |-> keys]

\* { key: value }
JObj1(key, value) == JObj(<<key>>, key :> value)

EmptyObject == JObj(<<>>, <<>>)

\* plan.key: undefined when the object has no such key
Get(o, key) == IF key \in DOMAIN o.v THEN o.v[key] ELSE Undefined

\* a ?? b
Coalesce(a, b) == IF a.t \in {"undefined", "null"} THEN b ELSE a

\* the truthiness of a value (a ? x : y, a || b, a && b)
Truthy(a) ==
  CASE a.t \in {"undefined", "null", "NaN"} -> FALSE
    [] a.t = "boolean" -> a.v
    [] a.t = "number" -> a.v # 0
    [] a.t = "decimal" -> \E i \in 1..Len(a.v) : a.v[i] \notin {"0", ".", "-"}
    [] a.t = "string" -> a.v # <<>>
    [] OTHER -> TRUE

\* the decimal digits of a natural number
RECURSIVE natToString(_)
natToString(n) ==
  IF n < 10
    THEN <<DigitChars[n + 1]>>
    ELSE Append(natToString(n \div 10), DigitChars[(n % 10) + 1])

RECURSIVE join(_, _)
\* Array.prototype.join of an array of strings
join(a, sep) ==
  IF Len(a) = 0 THEN <<>>
  ELSE IF Len(a) = 1 THEN a[1]
  ELSE a[1] \o sep \o join(Tail(a), sep)

\* String(v): the text of a value
RECURSIVE toString(_)
toString(a) ==
  CASE a.t = "string" -> a.v
    [] a.t = "number" ->
         IF a.v < 0 THEN <<"-">> \o natToString(0 - a.v) ELSE natToString(a.v)
    [] a.t = "NaN" -> <<"N", "a", "N">>
    [] a.t = "boolean" ->
         IF a.v THEN <<"t", "r", "u", "e">> ELSE <<"f", "a", "l", "s", "e">>
    [] a.t = "null" -> <<"n", "u", "l", "l">>
    [] a.t = "undefined" -> <<"u", "n", "d", "e", "f", "i", "n", "e", "d">>
    [] a.t = "array" ->
         join([i \in 1..Len(a.v) |->
                 IF a.v[i].t \in {"undefined", "null"}
                   THEN <<>> ELSE toString(a.v[i])], <<",">>)
    [] OTHER ->
         <<"[", "o", "b", "j", "e", "c", "t", " ",
           "O", "b", "j", "e", "c", "t", "]">>

\* String.prototype.trim
trim(s) ==
  IF \A i \in 1..Len(s) : isSpace(s[i])
    THEN <<>>
    ELSE LET first == CHOOSE i \in 1..Len(s) :
                        ~isSpace(s[i]) /\ \A j \in 1..(i - 1) : isSpace(s[j])
             last == CHOOSE i \in 1..Len(s) :
                       ~isSpace(s[i]) /\ \A j \in (i + 1)..Len(s) : isSpace(s[j])
         IN  SubSeq(s, first, last)

\* the number a string converts to: integers in decimal notation, the
\* empty string (0); every other string of the model is not a number
stringToNumber(s) ==
  LET r == trim(s)
      digits == IF r # <<>> /\ r[1] \in {"-", "+"} THEN Tail(r) ELSE r
  IN  IF r = <<>> THEN JNum(0)
      ELSE IF digits # <<>> /\ \A i \in 1..Len(digits) : isDigit(digits[i])
        THEN JNum(IF r[1] = "-" THEN 0 - parseInt(digits) ELSE parseInt(digits))
        ELSE NaN

\* Number(v)
toNumber(a) ==
  CASE a.t \in {"number", "decimal"} -> a
    [] a.t = "boolean" -> JNum(IF a.v THEN 1 ELSE 0)
    [] a.t = "null" -> JNum(0)
    [] a.t = "string" -> stringToNumber(a.v)
    [] a.t = "array" -> stringToNumber(toString(a))
    [] OTHER -> NaN

\* x && x > 0 of a number x
isPositive(x) == x.t = "number" /\ x.v > 0

(***************************************************************************)
(* Plan expander (src/src/chat/index.ts)                                   *)
(***************************************************************************)
k_tree_types == <<"t", "r", "e", "e", "_", "t", "y", "p", "e", "s">>

k_species == <<"s", "p", "e", "c", "i", "e", "s">>

k_count == <<"c", "o", "u", "n", "t">>

k_total == <<"t", "o", "t", "a", "l">>

k_per_type == <<"p", "e", "r", "_", "t", "y", "p", "e">>

k_companions == <<"c", "o", "m", "p", "a", "n", "i", "o", "n", "s">>

k_location == <<"l", "o", "c", "a", "t", "i", "o", "n">>

k_placement == <<"p", "l", "a", "c", "e", "m", "e", "n", "t">>

s_mystic == <<"m", "y", "s", "t", "i", "c">>

k_seed == <<"s", "e", "e", "d">>

\* seeds.push({ seed: { species: t, placement: location, companions } })
GroveSeed(t, location, companion) ==
  JObj1(k_seed,
        JObj(<<k_species, k_placement, k_companions>>,
             k_species :> t @@ k_placement :> location
             @@ k_companions :> companion))

\* for (let i = 0; i < n; i++) seeds.push(seed)
pushTimes(seeds, seed, n) == seeds \o [k \in 1..n |-> seed]

\* for (const t of typesSafe) for (i < perType) seeds.push(...)
RECURSIVE perTypeLoop(_, _, _, _, _)
perTypeLoop(seeds, typesSafe, perType, location, companion) ==
  IF typesSafe = <<>>
    THEN seeds
    ELSE perTypeLoop(
           pushTimes(seeds, GroveSeed(typesSafe[1], location, companion),
                     perType),
           Tail(typesSafe), perType, location, companion)

\* totalLoop without the cycling: every seed is of the first type
totalLoopFirstType(seeds, i, total, typesSafe, location, companion) ==
  pushTimes(seeds, GroveSeed(typesSafe[1], location, companion), total - i)

\* for (let i = 0; i < total; i++) seeds.push(typesSafe[i % length])
totalLoop(seeds, i, total, typesSafe, location, companion) ==
  seeds \o [k \in 1..(total - i) |->
              GroveSeed(typesSafe[((i + k - 1) % Len(typesSafe)) + 1],
                        location, companion)]

\* Array.isArray(plan.tree_types) ? plan.tree_types
\*   : (plan.species ? [String(plan.species)] : [])
planTypes(plan) ==
  IF Get(plan, k_tree_types).t = "array"
    THEN Get(plan, k_tree_types).v
    ELSE IF Truthy(Get(plan, k_species))
           THEN <<JStr(toString(Get(plan, k_species)))>>
           ELSE <<>>

\* Number(plan.count ?? plan.total ?? 0)
planTotal(plan) ==
  toNumber(Coalesce(Coalesce(Get(plan, k_count), Get(plan, k_total)),
                    JNum(0)))

\* Number(plan.per_type ?? 0)
planPerType(plan) == toNumber(Coalesce(Get(plan, k_per_type), JNum(0)))

\* types.length ? types : ['mystic']
typesSafeOf(types) == IF Len(types) > 0 THEN types ELSE <<JStr(s_mystic)>>

\* expandBranches with the count tested before per_type
expandCountFirst(types, typesSafe, total, perType, location, companion) ==
  IF isPositive(total)
    THEN totalLoop(<<>>, 0, total.v, typesSafe, location, companion)
  ELSE IF isPositive(perType)
    THEN perTypeLoop(<<>>, typesSafe, perType.v, location, companion)
  ELSE IF Len(types) = 0
    THEN SubSeq(perTypeLoop(<<>>, typesSafe, 1, location, companion), 1, 1)
    ELSE perTypeLoop(<<>>, typesSafe, 1, location, companion)

\* the three branches of expandGrovePlan
expandBranches(types, typesSafe, total, perType, location, companion) ==
  IF isPositive(perType)
    THEN perTypeLoop(<<>>, typesSafe, perType.v, location, companion)
  ELSE IF isPositive(total)
    THEN totalLoop(<<>>, 0, total.v, typesSafe, location, companion)
  ELSE IF Len(types) = 0
    THEN SubSeq(perTypeLoop(<<>>, typesSafe, 1, location, companion), 1, 1)
    ELSE perTypeLoop(<<>>, typesSafe, 1, location, companion)

expandTypes(plan, types) ==
  expandBranches(types, typesSafeOf(types), planTotal(plan),
                 planPerType(plan),
                 Coalesce(Get(plan, k_location), Get(plan, k_placement)),
                 Get(plan, k_companions))

expandGrovePlan(plan) ==
  IF plan.t # "object" THEN <<>> ELSE expandTypes(plan, planTypes(plan))

(***************************************************************************)
(* JSON.parse, for the JSON texts of the model: objects, arrays, strings   *)
(* without escapes, integers, true, false, null, with white space between  *)
(* the tokens.  Every other text is a syntax error.                        *)
(***************************************************************************)
JError == [t |-> "error"]

\* before each character of s, and at its end: whether the place lies
\* inside a string literal (q), and the number of brackets open there (d)
RECURSIVE scanFrom(_, _, _, _)
scanFrom(s, i, q, d) ==
  IF i > Len(s)
    THEN <<[q |-> q, d |-> d]>>
    ELSE <<[q |-> q, d |-> d]>> \o
         scanFrom(s, i + 1,
                  IF s[i] = "\"" THEN ~q ELSE q,
                  IF q THEN d
                  ELSE IF s[i] \in {"{", "["} THEN d + 1
                  ELSE IF s[i] \in {"}", "]"} THEN d - 1
                  ELSE d)

scan(s) == scanFrom(s, 1, FALSE, 0)

balanced(sc) ==
  /\ \A i \in 1..Len(sc) : sc[i].d >= 0
  /\ sc[Len(sc)].d = 0
  /\ ~sc[Len(sc)].q

wellNested(s) == balanced(scan(s))

outside(s, sc, c) ==
  {i \in 1..Len(s) : s[i] = c /\ ~sc[i].q /\ sc[i].d = 0}

\* the places of character c of s outside every string and bracket
topLevel(s, c) == outside(s, scan(s), c)

\* the pieces of s between the places cuts, from place from on
RECURSIVE piecesFrom(_, _, _)
piecesFrom(s, from, cuts) ==
  IF cuts = {}
    THEN <<SubSeq(s, from, Len(s))>>
    ELSE <<SubSeq(s, from, Min(cuts) - 1)>>
         \o piecesFrom(s, Min(cuts) + 1, cuts \ {Min(cuts)})

\* the pieces of s between its top-level characters c
splitTop(s, c) == piecesFrom(s, 1, topLevel(s, c))

\* -?(0|[1-9][0-9]*) without its sign
isJsonDigits(d) ==
  /\ d # <<>>
  /\ \A i \in 1..Len(d) : isDigit(d[i])
  /\ (Len(d) > 1 => d[1] # "0")

isJsonInt(s) == isJsonDigits(IF s # <<>> /\ s[1] = "-" THEN Tail(s) ELSE s)

\* the digits before the point of a number with a fraction, without sign
wholePart(s) ==
  SubSeq(s, IF s[1] = "-" THEN 2 ELSE 1,
         (CHOOSE p \in 1..Len(s) : s[p] = ".") - 1)

\* -?(0|[1-9][0-9]*)\.[0-9]+: a number with a fraction
isJsonDecimal(s) ==
  \E p \in 2..(Len(s) - 1) :
    /\ s[p] = "."
    /\ isJsonInt(SubSeq(s, 1, p - 1))
    /\ \A i \in (p + 1)..Len(s) : isDigit(s[i])

isJsonString(s) ==
  /\ Len(s) >= 2
  /\ s[1] = "\"" /\ s[Len(s)] = "\""
  /\ \A i \in 2..(Len(s) - 1) : s[i] \notin {"\"", "\\", "\n", "\t", "\r"}

RECURSIVE JSONparse(_)

\* the array of the element values vals
arrayOf(vals) ==
  IF \E i \in 1..Len(vals) : vals[i] = JError THEN JError ELSE JArr(vals)

\* the names without their repetitions, in the order of first occurrence
RECURSIVE distinct(_)
distinct(names) ==
  IF names = <<>>
    THEN <<>>
    ELSE distinct(SubSeq(names, 1, Len(names) - 1)) \o
         IF \E i \in 1..(Len(names) - 1) : names[i] = names[Len(names)]
           THEN <<>> ELSE <<names[Len(names)]>>

\* the object of the members names[i]: vals[i]; a repeated name keeps its
\* first place and its last value
objectFrom(names, vals) ==
  JObj(distinct(names),
       [k \in {names[i] : i \in 1..Len(names)} |->
          vals[Max({i \in 1..Len(names) : names[i] = k})]])

\* the object of the members keys[i]: vals[i], keys[i] being the text of
\* the key with its quotes, or a syntax error
objectOf(keys, vals) ==
  IF \E i \in 1..Len(keys) : ~isJsonString(keys[i]) \/ vals[i] = JError
    THEN JError
    ELSE objectFrom([i \in 1..Len(keys) |->
                       SubSeq(keys[i], 2, Len(keys[i]) - 1)], vals)

\* the text of the key of a member whose colons are at the places colons
memberKey(part, colons) ==
  IF colons = {} THEN <<>> ELSE trim(SubSeq(part, 1, Min(colons) - 1))

memberValue(part, colons) ==
  IF colons = {}
    THEN JError
    ELSE JSONparse(SubSeq(part, Min(colons) + 1, Len(part)))

parseMembers(parts) ==
  objectOf([i \in 1..Len(parts) |->
              memberKey(parts[i], topLevel(parts[i], ":"))],
           [i \in 1..Len(parts) |->
              memberValue(parts[i], topLevel(parts[i], ":"))])

parseElements(parts) ==
  arrayOf([i \in 1..Len(parts) |-> JSONparse(parts[i])])

\* the value of what stands between the brackets of an array
parseArray(inner) ==
  IF ~wellNested(inner) THEN JError
  ELSE IF trim(inner) = <<>> THEN JArr(<<>>)
  ELSE parseElements(splitTop(inner, ","))

\* the value of what stands between the braces of an object
parseObject(inner) ==
  IF ~wellNested(inner) THEN JError
  ELSE IF trim(inner) = <<>> THEN EmptyObject
  ELSE parseMembers(splitTop(inner, ","))

parseTrimmed(s) ==
  CASE s = <<"t", "r", "u", "e">> -> JBool(TRUE)
    [] s = <<"f", "a", "l", "s", "e">> -> JBool(FALSE)
    [] s = <<"n", "u", "l", "l">> -> JNull
    [] isJsonInt(s) ->
         JNum(IF s[1] = "-" THEN 0 - parseInt(Tail(s)) ELSE parseInt(s))
    [] isJsonDecimal(s) -> JDec(s)
    [] isJsonString(s) -> JStr(SubSeq(s, 2, Len(s) - 1))
    [] Len(s) >= 2 /\ s[1] = "[" /\ s[Len(s)] = "]" ->
         parseArray(SubSeq(s, 2, Len(s) - 1))
    [] Len(s) >= 2 /\ s[1] = "{" /\ s[Len(s)] = "}" ->
         parseObject(SubSeq(s, 2, Len(s) - 1))
    [] OTHER -> JError

JSONparse(text) == parseTrimmed(trim(text))

(***************************************************************************)
(* Explicit COMMAND lines and seeds (src/src/chat/index.ts)                *)
(***************************************************************************)
\* try { return JSON.parse(...) } catch { return undefined }
orUndefined(v) == IF v = JError THEN Undefined ELSE v

\* text.match(/\{[\s\S]*\}$/), then JSON.parse of the match
parseTreeSeedFromText(text) ==
  IF text = <<>> \/ text[Len(text)] # "}"
       \/ \A i \in 1..Len(text) : text[i] # "{"
    THEN Undefined
    ELSE orUndefined(JSONparse(
           SubSeq(text, Min({i \in 1..Len(text) : text[i] = "{"}),
                  Len(text))))

RECURSIVE splitLines(_)

\* the text of s after the run of line feeds that starts at place i
afterFeeds(s, i) ==
  SubSeq(s, Min({q \in (i + 1)..(Len(s) + 1) :
                   q = Len(s) + 1 \/ s[q] # "\n"}), Len(s))

splitFeeds(s, nl) ==
  IF nl = {}
    THEN <<s>>
    ELSE <<SubSeq(s, 1, Min(nl) - 1)>> \o splitLines(afterFeeds(s, Min(nl)))

\* String.prototype.split(/\n+/)
splitLines(s) == splitFeeds(s, {i \in 1..Len(s) : s[i] = "\n"})

s_command == <<"c", "o", "m", "m", "a", "n", "d">>

s_grow_grove == <<"G", "R", "O", "W", "_", "G", "R", "O", "V", "E">>

s_grow_forest == <<"G", "R", "O", "W", "_", "F", "O", "R", "E", "S", "T">>

\* (?:\.[A-Z_]+)? under the flag i, from the end e of the kind
AfterOptAction(l, e) ==
  {e} \cup
  {q \in Positions(l) :
     /\ q > e + 1
     /\ l[e] = "."
     /\ \A i \in (e + 1)..(q - 1) : l[i] \in LowerSet \cup UpperSet \cup {"_"}}

\* the matches <<kind, end of kind, end of action, start of payload>> of
\* /^command\s*:\s*(tree(?:\.[A-Z_]+)?|deku(?:\.[A-Z_]+)?)\b\s*(\{[\s\S]*\})?$/i
\* on line l, ll being l in lower case; the start of the payload is 0 when
\* the line has none
MatchesFrom(l, ll, afterColon) ==
  UNION {
    UNION {
      UNION {
        {<<kind, e, q, IF p = Len(l) + 1 THEN 0 ELSE p>> :
           p \in {r \in AfterSpaces0(ll, OnBoundary(ll, {q})) :
                    \/ r = Len(l) + 1
                    \/ r <= Len(l) /\ l[r] = "{" /\ l[Len(l)] = "}"}} :
        q \in AfterOptAction(ll, e)} :
      e \in AfterAlt(ll, afterColon, {kind})} :
    kind \in {s_tree, s_deku}}

\* ^command\s*:\s*
AfterCommandColon(ll) ==
  AfterSpaces0(ll, AfterAlt(ll, AfterSpaces0(ll,
     AfterAlt(ll, {1}, {s_command})), {<<":">>}))

matchesOfLower(l, ll) == MatchesFrom(l, ll, AfterCommandColon(ll))

CommandMatches(l) == matchesOfLower(l, toLowerCase(l))

\* the greedy match: the longest action, and the payload if there is one
greedy(M) == CHOOSE x \in M : \A y \in M : x[3] >= y[3]

\* cmds.push({ kind, action, payload }) for the match m of line l
commandOf(l, m) ==
  [kind |-> IF m[1] = s_tree THEN "tree" ELSE "deku",
   action |-> IF m[3] > m[2]
                THEN SubSeq(toLowerCase(l), m[2] + 1, m[3] - 1)
                ELSE <<>>,
   payload |-> IF m[4] = 0 THEN Undefined
               ELSE orUndefined(JSONparse(SubSeq(l, m[4], Len(l))))]

commandsOfMatches(l, M) ==
  IF M = {} THEN <<>> ELSE <<commandOf(l, greedy(M))>>

\* for (const line of lines) { const l = line.trim(); ... }
RECURSIVE commandsOfLines(_)
commandsOfLines(lines) ==
  IF lines = <<>>
    THEN <<>>
    ELSE commandsOfMatches(trim(Head(lines)), CommandMatches(trim(Head(lines))))
         \o commandsOfLines(Tail(lines))

findExplicitCommands(text) == commandsOfLines(splitLines(text))

(***************************************************************************)
(* Chain resolver and action executor: handleUserInput                     *)
(* (src/src/chat/index.ts).  An item is one tree or deku action the        *)
(* handler has resolved; a request is one HTTP request it has issued.      *)
(***************************************************************************)
\* /tree|sapling/
treeKeyword(t, P) == AfterAlt(t, P, {s_tree, s_sapling})

\* /\bcommand\s*:\s*tree\b/i
commandTree(t, P) ==
  OnBoundary(t, AfterAlt(t, AfterSpaces0(t, AfterAlt(t, AfterSpaces0(t,
     AfterAlt(t, OnBoundary(t, P), {s_command})), {<<":">>})), {s_tree}))

\* /\btree\s*:/i
treeColon(t, P) ==
  AfterAlt(t, AfterSpaces0(t, AfterAlt(t, OnBoundary(t, P), {s_tree})),
           {<<":">>})

\* /\bcommand\s*:\s*deku\b/i
commandDeku(t, P) ==
  OnBoundary(t, AfterAlt(t, AfterSpaces0(t, AfterAlt(t, AfterSpaces0(t,
     AfterAlt(t, OnBoundary(t, P), {s_command})), {<<":">>})), {s_deku}))

\* /\bdeku\s*:/i
dekuColon(t, P) ==
  AfterAlt(t, AfterSpaces0(t, AfterAlt(t, OnBoundary(t, P), {s_deku})),
           {<<":">>})

explicitTree(txt) ==
  \/ RegexTest(commandTree, toLowerCase(txt))
  \/ RegexTest(treeColon, toLowerCase(txt))

explicitDeku(txt) ==
  \/ RegexTest(commandDeku, toLowerCase(txt))
  \/ RegexTest(dekuColon, toLowerCase(txt))

\* v || {}
OrEmptyObject(v) == IF Truthy(v) THEN v ELSE EmptyObject

\* a tree action: index and total are 0 when the command log carries none;
\* suffix: the message ends in [index/total]; reports: a message is posted
TreeItem(from, seed, index, total, suffix, reports, action) ==
  [kind |-> "tree", from |-> from, seed |-> seed, index |-> index,
   total |-> total, suffix |-> suffix, reports |-> reports,
   action |-> action, base |-> Undefined]

\* a deku action: base is the argument handed to makeDekuNut
DekuItem(from, index, total, suffix, reports, base) ==
  [kind |-> "deku", from |-> from, seed |-> Undefined, index |-> index,
   total |-> total, suffix |-> suffix, reports |-> reports,
   action |-> <<>>, base |-> base]

\* for (let i = 0; i < n; i++) { ... tree ... }
TreeBatch(from, seed, n, suffixAlways) ==
  [i \in 1..n |-> TreeItem(from, seed, i, n, suffixAlways \/ n > 1, TRUE, <<>>)]

\* for (let i = 0; i < nD; i++) { ... deku ... }
DekuBatch(from, nD) ==
  [i \in 1..nD |-> DekuItem(from, i, nD, nD > 1, TRUE, Undefined)]

\* for (const seed of seeds) { i++; ... tree ... }
GroveItems(seeds, from, action) ==
  [i \in 1..Len(seeds) |->
     TreeItem(from, seeds[i], i, Len(seeds), TRUE, TRUE, action)]

\* (cmd.payload && typeof cmd.payload === 'object')
\*   ? cmd.payload : (parseTreeSeedFromText(text) || {})
CommandSeed(cmd, text) ==
  IF Truthy(cmd.payload) /\ cmd.payload.t \in {"object", "array"}
    THEN cmd.payload
    ELSE OrEmptyObject(parseTreeSeedFromText(text))

\* the items of one explicit tree command whose action is action
TreeCommandItems(cmd, text, from, action) ==
  IF action \in {s_grow_grove, s_grow_forest}
    THEN GroveItems(expandGrovePlan(OrEmptyObject(cmd.payload)), from, action)
    ELSE <<TreeItem(from, CommandSeed(cmd, text), 0, 0, FALSE, TRUE, <<>>)>>

\* the items of one explicit command
CommandItems(cmd, text, from) ==
  IF cmd.kind = "tree"
    THEN TreeCommandItems(cmd, text, from, toUpperCase(cmd.action))
    ELSE <<DekuItem(from, 0, 0, FALSE, TRUE, Undefined)>>

\* for (const cmd of explicit) { ... }
RECURSIVE ExplicitItems(_, _, _)
ExplicitItems(cmds, text, from) ==
  IF cmds = <<>>
    THEN <<>>
    ELSE CommandItems(Head(cmds), text, from)
         \o ExplicitItems(Tail(cmds), text, from)

\* idxTree < idxDeku ? ['tree','deku'] : ['deku','tree']
ChainOrder(idxTree, idxDeku, trees, dekus) ==
  IF idxTree < idxDeku THEN trees \o dekus ELSE dekus \o trees

\* the chain of text, t being text in lower case
ChainOfLower(text, t, from) ==
  ChainOrder(RegexSearch(treeKeyword, t), RegexSearch(dekuWord, t),
             TreeBatch(from, OrEmptyObject(parseTreeSeedFromText(text)),
                       countTrees(t), FALSE),
             DekuBatch(from, countDeku(t)))

\* the chain of a text with both intents, in the order of the keywords
ChainItems(text, from) == ChainOfLower(text, toLowerCase(text), from)

\* input.trim().match(/^tree(?:\s+(\{[\s\S]*\}))?$/i): the payload places
treeMatch(inp) ==
  LET r == trim(inp)
      t == toLowerCase(r)
  IN  IF ~LitAt(t, 1, s_tree) THEN {}
      ELSE IF Len(r) = 4 THEN {0}
      ELSE {p \in AfterSpaces1(t, {5}) :
              p <= Len(r) /\ r[p] = "{" /\ r[Len(r)] = "}"}

\* \d+(?:\.\d+)?
isNumeral(s) ==
  LET dots == {i \in 1..Len(s) : s[i] = "."}
  IN  /\ Len(s) > 0
      /\ \A i \in 1..Len(s) : isDigit(s[i]) \/ s[i] = "."
      /\ Cardinality(dots) <= 1
      /\ \A i \in dots : 1 < i /\ i < Len(s)

\* input.trim().match(/^deku(?:\s+(\d+(?:\.\d+)?))?$/i): the number places
dekuMatch(inp) ==
  LET r == trim(inp)
      t == toLowerCase(r)
  IN  IF ~LitAt(t, 1, s_deku) THEN {}
      ELSE IF Len(r) = 4 THEN {0}
      ELSE {p \in AfterSpaces1(t, {5}) :
              p <= Len(r) /\ ~isSpace(r[p]) /\ isNumeral(SubSeq(r, p, Len(r)))}

\* Number(numeral): a numeral with a fraction is kept as its text
numeralToNumber(s) ==
  IF \A i \in 1..Len(s) : isDigit(s[i])
    THEN JNum(parseInt(s))
    ELSE [t |-> "decimal", v |-> s]

\* the handler has resolved items and returns without forwarding
Do(items) == [forward |-> FALSE, items |-> items]

\* the handler forwards the text to the agent
Forward == [forward |-> TRUE, items |-> <<>>]

\* try { payload = JSON.parse(treeMatch[1]) } catch { payload = {} }
LocalPayload(r, tm) ==
  IF tm = {0}
    THEN EmptyObject
    ELSE IF JSONparse(SubSeq(r, Min(tm), Len(r))) = JError
           THEN EmptyObject
           ELSE JSONparse(SubSeq(r, Min(tm), Len(r)))

\* dekuMatch[1] ? Number(dekuMatch[1]) : undefined
LocalBase(r, dm) ==
  IF dm = {0} THEN Undefined ELSE numeralToNumber(SubSeq(r, Min(dm), Len(r)))

\* the local commands tree and deku of the trimmed text r, else the forward
planLocal(r, tm, dm) ==
  IF tm # {}
    THEN Do(<<TreeItem("local", LocalPayload(r, tm), 0, 0, FALSE, FALSE, <<>>)>>)
  ELSE IF dm # {}
    THEN Do(<<DekuItem("local", 0, 0, FALSE, FALSE, LocalBase(r, dm))>>)
  ELSE Forward

\* the order of the simple chain: both kinds by place, else the one found
SimpleOrder(idxTree, idxDeku, tree1, deku1) ==
  IF idxTree >= 0 /\ idxDeku >= 0
    THEN IF idxTree < idxDeku THEN tree1 \o deku1 ELSE deku1 \o tree1
  ELSE IF idxTree >= 0 THEN tree1
  ELSE IF idxDeku >= 0 THEN deku1
  ELSE <<>>

\* if (order.length) return; else the local commands
planSimple(inp, order) ==
  IF order # <<>>
    THEN Do(order)
    ELSE planLocal(trim(inp), treeMatch(inp), dekuMatch(inp))

\* the natural-language branches, wt and wd being wantsTree(lower) and
\* wantsDeku(lower), seed being parseTreeSeedFromText(input) || {}
planIntent(inp, lower, wt, wd, seed) ==
  IF wt /\ wd
    THEN Do(ChainItems(inp, "user-nl"))
  ELSE IF wt
    THEN Do(TreeBatch("user-nl", seed, countTrees(lower), TRUE))
  ELSE IF wd
    THEN Do(DekuBatch("user-nl", countDeku(lower)))
  ELSE planSimple(inp,
         IF wt \/ wd
           THEN SimpleOrder(RegexSearch(treeKeyword, lower),
                            RegexSearch(dekuWord, lower),
                            <<TreeItem("user-nl", seed, 0, 0, FALSE, TRUE, <<>>)>>,
                            <<DekuItem("user-nl", 0, 0, FALSE, TRUE, Undefined)>>)
           ELSE <<>>)

\* planExplicit without the precedence of the explicit commands: the
\* natural-language branches run whatever findExplicitCommands returns
planIgnoringExplicit(inp, lower, explicit) ==
  planIntent(inp, lower, wantsTree(lower), wantsDeku(lower),
             OrEmptyObject(parseTreeSeedFromText(inp)))

\* if (explicit.length) { ... return } else the natural-language branches
planExplicit(inp, lower, explicit) ==
  IF Len(explicit) > 0
    THEN Do(ExplicitItems(explicit, inp, "user-nl"))
    ELSE planIntent(inp, lower, wantsTree(lower), wantsDeku(lower),
                    OrEmptyObject(parseTreeSeedFromText(inp)))

\* what handleUserInput does with the text typed by the user, before its
\* first await: the items it resolves, or the forward to the agent
UserPlan(inp) == planExplicit(inp, toLowerCase(inp), findExplicitCommands(inp))

\* const n = countTrees(txt); if (n > 1) { ... } else { ... }
agentTrees(seed, n) ==
  IF n > 1
    THEN TreeBatch("agent-intent", seed, n, TRUE)
    ELSE <<TreeItem("agent-intent", seed, 0, 0, FALSE, TRUE, <<>>)>>

\* the natural-language branches of the agent loop
agentIntent(txt, wt, wd) ==
  IF wt /\ wd
    THEN ChainItems(txt, "agent-intent")
  ELSE IF explicitDeku(txt) \/ wd
    THEN <<DekuItem("agent-intent", 0, 0, FALSE, TRUE, Undefined)>>
  ELSE IF explicitTree(txt) \/ wt
    THEN agentTrees(OrEmptyObject(parseTreeSeedFromText(txt)), countTrees(txt))
  ELSE <<>>

\* if (explicitCmds.length) { ... continue } else the other branches
agentExplicit(txt, explicitCmds) ==
  IF Len(explicitCmds) > 0
    THEN ExplicitItems(explicitCmds, txt, "agent-intent")
    ELSE agentIntent(txt, wantsTree(txt), wantsDeku(txt))

\* the items handleUserInput resolves for one message of the agent's reply
AgentItems(txt) == agentExplicit(txt, findExplicitCommands(txt))

\* makeDekuNut(baseValue); id stands for the hash of the time and a salt
makeDekuNut(baseValue, id) ==
  [name |-> "deku nut", id |-> id,
   base |-> IF baseValue.t \in {"number", "decimal"} THEN baseValue
            ELSE JNum(1)]

\* postJson(.../api/command-logs, { command, payload })
LogRequest(it) ==
  [url |-> "command-logs", command |-> it.kind, from |-> it.from,
   index |-> it.index, total |-> it.total, action |-> it.action]

\* fetch(.../api/trees, { method: 'POST', body: JSON.stringify(seed) })
TreeRequest(it) ==
  [url |-> "trees", from |-> it.from, seed |-> it.seed]

\* postJson(.../api/messages, { role: 'agent', text: `Created tree ...` });
\* named: the reply of the tree endpoint carried the tree's name and id
TreeMessage(it, named) ==
  [url |-> "messages", role |-> "agent", about |-> "tree", named |-> named,
   index |-> it.index, total |-> it.total, suffix |-> it.suffix]

\* the three postJson calls of a deku action for the nut dekuNut
DekuPosts(it, dekuNut) ==
  <<[url |-> "deku-nuts", id |-> dekuNut.id, base |-> dekuNut.base,
     from |-> it.from, index |-> it.index, total |-> it.total],
    LogRequest(it)>>
  \o IF it.reports
       THEN <<[url |-> "messages", role |-> "agent", about |-> "deku",
               id |-> dekuNut.id, base |-> dekuNut.base,
               index |-> it.index, total |-> it.total, suffix |-> it.suffix]>>
       ELSE <<>>

DekuRequests(it, id) == DekuPosts(it, makeDekuNut(it.base, id))

k_text == <<"t", "e", "x", "t">>

\* String(message?.text ?? '')
MessageText(message) ==
  IF message.t = "object"
    THEN toString(Coalesce(Get(message, k_text), JStr(<<>>)))
    ELSE <<>>

\* the handler records the message whose text is txt and resolves it
Recorded(st, txt) ==
  [st EXCEPT
     !.pending = Tail(@),
     !.requests = Append(@, [url |-> "messages", role |-> "agent",
                             about |-> "reply", text |-> txt]),
     !.todo = AgentItems(txt)]

\* the handler runs from st to its next await: deku items complete, a tree
\* item logs its command and awaits the tree endpoint, the next message of
\* the agent's reply is recorded and resolved
RECURSIVE Run(_)
Run(st) ==
  IF st.todo # <<>>
    THEN IF Head(st.todo).kind = "deku"
           THEN Run([st EXCEPT
                  !.todo = Tail(@),
                  !.requests = @ \o DekuRequests(Head(st.todo), st.nextId),
                  !.nextId = @ + 1])
           ELSE [st EXCEPT
                  !.requests = @ \o <<LogRequest(Head(st.todo)),
                                      TreeRequest(Head(st.todo))>>,
                  !.pc = "awaitTree"]
  ELSE IF st.pending # <<>>
    THEN IF Head(st.pending).t \in {"null", "undefined"}
           \* message.text throws; caught by the handler's catch
           THEN [st EXCEPT !.pending = <<>>, !.pc = "done"]
           ELSE Run(Recorded(st, MessageText(Head(st.pending))))
  ELSE [st EXCEPT !.pc = "done"]

(***************************************************************************)
(* Generation service: generateTreeViaOpenAI (src/src/index.ts)            *)
(***************************************************************************)
\* the text of a string literal: JSON.stringify of a string
quote(s) ==
  LET esc(c) == CASE c = "\"" -> <<"\\", "\"">>
                  [] c = "\\" -> <<"\\", "\\">>
                  [] c = "\n" -> <<"\\", "n">>
                  [] OTHER -> <<c>>
      RECURSIVE body(_)
      body(r) == IF r = <<>> THEN <<>> ELSE esc(Head(r)) \o body(Tail(r))
  IN  <<"\"">> \o body(s) \o <<"\"">>

\* JSON.stringify(v): a member whose value is undefined is left out, an
\* undefined or NaN element of an array is written null
RECURSIVE JSONstringify(_)
JSONstringify(a) ==
  CASE a.t = "string" -> quote(a.v)
    [] a.t \in {"NaN", "null"} -> <<"n", "u", "l", "l">>
    [] a.t \in {"number", "boolean"} -> toString(a)
    [] a.t = "decimal" -> a.v
    [] a.t = "array" ->
         <<"[">> \o
         join([i \in 1..Len(a.v) |->
                 IF a.v[i].t = "undefined"
                   THEN <<"n", "u", "l", "l">> ELSE JSONstringify(a.v[i])],
              <<",">>)
         \o <<"]">>
    [] a.t = "object" ->
         LET shown == SelectSeq(a.keys, LAMBDA k : a.v[k].t # "undefined")
         IN  <<"{">> \o
             join([i \in 1..Len(shown) |->
                     quote(shown[i]) \o <<":">> \o JSONstringify(a.v[shown[i]])],
                  <<",">>)
             \o <<"}">>
    [] OTHER -> <<>>

isAlnum(c) == c \in LowerSet \cup UpperSet \cup DigitSet

\* s.replace(/[^a-z0-9]+/gi, " "): every run of other characters becomes
\* one space
RECURSIVE replaceNonAlnum(_)
replaceNonAlnum(s) ==
  IF s = <<>> THEN <<>>
  ELSE IF isAlnum(s[1]) THEN <<s[1]>> \o replaceNonAlnum(Tail(s))
  ELSE IF Len(s) > 1 /\ ~isAlnum(s[2]) THEN replaceNonAlnum(Tail(s))
  ELSE <<" ">> \o replaceNonAlnum(Tail(s))

\* base.split(" ")[0]
firstWord(s) ==
  IF \E i \in 1..Len(s) : s[i] = " "
    THEN SubSeq(s, 1, (CHOOSE i \in 1..Len(s) :
                         s[i] = " " /\ \A j \in 1..(i - 1) : s[j] # " ") - 1)
    ELSE s

s_tree_suffix == <<" ", "t", "r", "e", "e">>

s_unnamed == <<"U", "n", "n", "a", "m", "e", "d", " ", "T", "r", "e", "e">>

k_name == <<"n", "a", "m", "e">>

k_height == <<"h", "e", "i", "g", "h", "t">>

\* seed && typeof seed === "object" ? JSON.stringify(seed) : String(seed ?? "")
seedText(seed) ==
  IF Truthy(seed) /\ seed.t \in {"object", "array"}
    THEN JSONstringify(seed)
    ELSE toString(Coalesce(seed, JStr(<<>>)))

\* s || "mystic"
orMystic(s) == IF s = <<>> THEN s_mystic ELSE s

\* the name and the height the fallback gives to the text base
fallbackOf(base) ==
  [name |-> orMystic(firstWord(base)) \o s_tree_suffix,
   height |-> JNum(Max({3, Min({60, (Len(base) % 50) + 5})})),
   source |-> "local-fallback"]

\* the closure fallback of generateTreeViaOpenAI
fallback(seed) == fallbackOf(orMystic(trim(replaceNonAlnum(seedText(seed)))))

\* if (typeof obj !== "object" || !obj) obj = {}, obj being {} as well when
\* JSON.parse throws; an array has neither a name nor a height
contentObject(parsed) ==
  IF parsed = JError \/ parsed.t # "object" THEN EmptyObject ELSE parsed

\* String(obj.name || "Unnamed Tree"), Number(obj.height || 5)
candidateOf(name, height) ==
  [name |-> IF Truthy(name) THEN toString(name) ELSE s_unnamed,
   height |-> IF Truthy(height) THEN toNumber(height) ELSE JNum(5),
   source |-> "model"]

candidateFrom(obj) == candidateOf(Get(obj, k_name), Get(obj, k_height))

\* the tree generateTreeViaOpenAI builds from the content of the reply of
\* the external model; content is Undefined when the reply carries none
fromContent(content) ==
  candidateFrom(contentObject(JSONparse(
    IF Truthy(content) THEN toString(content) ELSE <<"{", "}">>)))

(***************************************************************************)
(* Texts: phrases of a vocabulary joined by single spaces                  *)
(***************************************************************************)
Phrases ==
  { <<"d", "o", "n", "'", "t">>,
    <<"m", "a", "k", "e", " ", "a", " ", "t", "r", "e", "e">>,
    <<"p", "l", "a", "n", "t", " ", "a", " ", "t", "r", "e", "e">>,
    <<"m", "a", "k", "e", " ", "a", " ", "d", "e", "k", "u">>,
    <<"p", "l", "a", "n", "t", " ", "a", " ", "s", "a", "p", "l", "i", "n",
      "g">>,
    <<"t", "h", "e", "n">>,
    <<"t", "r", "e", "e">>,
    <<"d", "e", "k", "u">>,
    <<"m", "a", "k", "e", " ", "3", " ", "t", "r", "e", "e", "s">>,
    <<"m", "a", "k", "e", " ", "2", " ", "d", "e", "k", "u", " ", "n", "u",
      "t", "s">>,
    <<"\n", "C", "O", "M", "M", "A", "N", "D", ":", " ", "T", "R", "E",
      "E", "\n">>,
    <<"\n", "C", "O", "M", "M", "A", "N", "D", ":", " ", "D", "E", "K",
      "U", "\n">>,
    <<"\n", "C", "O", "M", "M", "A", "N", "D", ":", " ", "T", "R", "E",
      "E", ".", "G", "R", "O", "W", "_", "G", "R", "O", "V", "E", " ", "{",
      "\"", "p", "e", "r", "_", "t", "y", "p", "e", "\"", ":", "2", "}",
      "\n">> }

\* the texts of exactly n phrases
RECURSIVE TextsOf(_)
TextsOf(n) ==
  IF n <= 1
    THEN Phrases
    ELSE {x[1] \o <<" ">> \o x[2] : x \in TextsOf(n - 1) \X Phrases}

UserTexts == UNION {TextsOf(n) : n \in 1..MaxPhrases}

\* { text }: one message of the agent's reply
Message(text) == JObj1(k_text, JStr(text))

\* the fetch of the agent endpoint, or the reading of its body, fails
Rejected == [t |-> "reject"]

\* what the agent endpoint answers to a text of UserTexts
BasicReplies == {Rejected, JArr(<<>>)}

s_hi == <<"h", "i">>

\* what the agent endpoint answers to the text s_hi: no array, or an array
\* of one message with a text of UserTexts, of two messages with a phrase
\* each, or of a message that is null or has no text
AgentReplies ==
  {Rejected, EmptyObject, JNull, JStr(s_hi), JNum(7)}
  \cup {JArr(<<>>), JArr(<<JNull>>), JArr(<<EmptyObject>>)}
  \cup {JArr(<<Message(t)>>) : t \in UserTexts}
  \cup {JArr(<<Message(x[1]), Message(x[2])>>) : x \in Phrases \X Phrases}

\* the tree endpoint answers with the saved tree or with an error object,
\* or the fetch or the reading of its body fails
TreeOutcomes == {"created", "error", "reject"}

(***************************************************************************)
(* State                                                                   *)
(***************************************************************************)
VARIABLES
  \* the chat loop (src/src/chat/index.ts)
  input,      \* the line typed at the prompt
  agentData,  \* the answer of the agent endpoint to a forwarded text
  pc,         \* where handleUserInput stands
  todo,       \* the resolved items not yet completed, the first one awaited
  pending,    \* the messages of the agent's reply not yet handled
  requests,   \* the HTTP requests issued so far, in order
  nextId,     \* the ids makeDekuNut has minted, plus one
  \* one GROW_GROVE / GROW_FOREST command
  plan,       \* the payload of the command
  seeds,      \* the seeds the command is expanded to
  expanded,   \* the command has been expanded
  \* the inspector server (src/src/index.ts)
  preferences,  \* the global preferences
  apiKey,       \* a credential of the external model is configured
  deku_nuts,    \* the rows of table deku_nuts, in insertion order
  trees,        \* the rows of table trees, in insertion order
  inflight,     \* the tree requests awaiting the external model
  calls,        \* the calls to the external model, in order
  generated,    \* what generateTreeViaOpenAI has returned, in order
  responses,    \* the HTTP responses sent, in order
  events,       \* the events broadcast, in order
  served,       \* the number of requests received
  \* the way from the chat loop to the inspector server
  arrived,      \* the places in requests of the requests the server has
                \* handled, in the order it handled them
  \* the feed of the inspector server: messages, command logs, observers
  journal,      \* the statements run, the events written to the observers
                \* and the calls of the agent endpoint, in order
  sseClients,   \* the handles of the connected observers, oldest first
  broken,       \* the handles whose write throws
  awaiting,     \* the handlers awaiting the answer of the agent endpoint
  \* the stimulus loop
  shuffledWorldTree,  \* the library as shuffled at the start
  worldTreeIdx,       \* the number of lines picked
  nudgeCount,         \* the number of ticks started
  \* the task loop of the inspector page
  tasks,     \* the registered tasks, in the order of registration
  now,       \* the time the latest tick has read, in milliseconds since
             \* the page was loaded
  runLog,    \* the runs of the task bodies, in order
  \* the observers of GET /api/events
  pings,        \* the handles whose keep-alive interval is running
  connections   \* the observers that have connected, and of each whether
                \* its close event has been handled

chatVars == <<input, agentData, pc, todo, pending, requests, nextId>>

groveVars == <<plan, seeds, expanded>>

serverVars == <<preferences, apiKey, deku_nuts, trees, inflight, calls,
                generated, responses, events, served>>

netVars == <<arrived>>

feedVars == <<journal, sseClients, broken, awaiting>>

nudgeVars == <<shuffledWorldTree, worldTreeIdx, nudgeCount>>

schedulerVars == <<tasks, now, runLog>>

observerVars == <<pings, connections>>

vars == <<chatVars, groveVars, serverVars, netVars, feedVars, nudgeVars,
          schedulerVars, observerVars>>

(***************************************************************************)
(* The chat loop: one line typed at the prompt                             *)
(***************************************************************************)
s_exit == <<"e", "x", "i", "t">>

ChatState == [todo |-> todo, pending |-> pending, requests |-> requests,
              nextId |-> nextId, pc |-> pc]

\* the handler continues to its next await from state st
Continue(st) ==
  \E r \in {Run(st)} :
    /\ todo' = r.todo
    /\ pending' = r.pending
    /\ requests' = r.requests
    /\ nextId' = r.nextId
    /\ pc' = r.pc

\* rl.question's callback: handleUserInput up to its first await
HandleUserInput ==
  /\ pc = "question"
  /\ IF toLowerCase(input) = s_exit
       THEN pc' = "exited" /\ UNCHANGED <<todo, pending, requests, nextId>>
       ELSE \E p \in {UserPlan(input)} :
              IF p.forward
                THEN /\ requests' = requests \o
                          <<[url |-> "messages", role |-> "user",
                             about |-> "input", text |-> input],
                            [url |-> "agent", text |-> input]>>
                     /\ pc' = "awaitAgent"
                     /\ UNCHANGED <<todo, pending, nextId>>
                ELSE Continue([ChatState EXCEPT !.todo = p.items])
  /\ UNCHANGED <<input, agentData, groveVars, serverVars, netVars, feedVars,
               nudgeVars, schedulerVars, observerVars>>

\* the message posted for the awaited tree item: none when the fetch or
\* the reading of its body failed (the inner catch), or for a local command
Reported(outcome) ==
  IF outcome # "reject" /\ Head(todo).reports
    THEN <<TreeMessage(Head(todo), outcome = "created")>>
    ELSE <<>>

\* the awaited fetch ends with outcome and the whole handler stops there:
\* a handler without the try/catch around each item of a batch
TreeAnswersAborting(outcome) ==
  /\ pc = "awaitTree"
  /\ IF outcome = "reject"
       THEN /\ pc' = "done"
            /\ todo' = <<>>
            /\ pending' = <<>>
            /\ UNCHANGED <<requests, nextId>>
       ELSE Continue([ChatState EXCEPT
              !.todo = Tail(@), !.requests = @ \o Reported(outcome)])
  /\ UNCHANGED <<input, agentData, groveVars, serverVars, netVars, feedVars,
               nudgeVars, schedulerVars, observerVars>>

\* the awaited fetch of the tree endpoint ends with outcome; the handler
\* goes on with the next item whatever the outcome
TreeAnswers(outcome) ==
  /\ pc = "awaitTree"
  /\ Continue([ChatState EXCEPT
       !.todo = Tail(@), !.requests = @ \o Reported(outcome)])
  /\ UNCHANGED <<input, agentData, groveVars, serverVars, netVars, feedVars,
               nudgeVars, schedulerVars, observerVars>>

\* the tree endpoint answers the awaited fetch
TreeResponse == \E outcome \in TreeOutcomes : TreeAnswers(outcome)

\* the answer of the agent endpoint handled without the catch of the
\* handler: a failed fetch, or data that cannot be iterated, is thrown out
\* of handleUserInput
AgentResponseUncaught ==
  /\ pc = "awaitAgent"
  /\ IF agentData.t = "array"
       THEN Continue([ChatState EXCEPT !.pending = agentData.v])
       ELSE pc' = "thrown" /\ UNCHANGED <<todo, pending, requests, nextId>>
  /\ UNCHANGED <<input, agentData, groveVars, serverVars, netVars, feedVars,
               nudgeVars, schedulerVars, observerVars>>

\* the agent endpoint answers the forwarded text
AgentResponse ==
  /\ pc = "awaitAgent"
  /\ IF agentData.t = "array"
       THEN Continue([ChatState EXCEPT !.pending = agentData.v])
     ELSE IF agentData.t = "string"
       \* for (const message of data) iterates the characters of a string
       THEN Continue([ChatState EXCEPT
              !.pending = [i \in 1..Len(agentData.v) |-> JStr(<<agentData.v[i]>>)]])
     \* the fetch failed, or the data is not iterable: caught by the catch
     ELSE pc' = "done" /\ UNCHANGED <<todo, pending, requests, nextId>>
  /\ UNCHANGED <<input, agentData, groveVars, serverVars, netVars, feedVars,
               nudgeVars, schedulerVars, observerVars>>

(***************************************************************************)
(* One GROW_GROVE / GROW_FOREST command                                    *)
(***************************************************************************)
\* a field the plan does not have
Absent == [t |-> "absent"]

\* the object with the given <<key, value>> members, in that order
ObjectOf(members) ==
  LET present == SelectSeq(members, LAMBDA m : m[2] # Absent)
  IN  JObj([i \in 1..Len(present) |-> present[i][1]],
           [k \in {present[i][1] : i \in 1..Len(present)} |->
              present[CHOOSE i \in 1..Len(present) : present[i][1] = k][2]])

TypeNames ==
  << <<"o", "a", "k">>, <<"p", "i", "n", "e">>, <<"e", "l", "m">>,
     <<"a", "s", "h">>, <<"f", "i", "r">> >>

s_yew == <<"y", "e", "w">>

s_x == <<"x">>

s_2 == <<"2">>

\* tree_types: missing, a list of up to MaxTypes names, or a single name
TypeFields ==
  {Absent, JStr(TypeNames[1])}
  \cup {JArr([i \in 1..n |-> JStr(TypeNames[i])]) : n \in 0..MaxTypes}

SpeciesFields == {Absent, JStr(s_yew)}

\* count and per_type: missing, null, an integer, or no number
NumberFields ==
  {Absent, JNull, JStr(s_x), JStr(s_2), JBool(TRUE)}
  \cup {JNum(n) : n \in (0 - 1)..MaxCount}

TotalFields == {Absent, JNum(2)}

\* the payloads of a GROW_GROVE command: none, or a plan object
Plans ==
  {Undefined} \cup
  {ObjectOf(<< <<k_tree_types, x[1]>>, <<k_species, x[2]>>,
               <<k_count, x[3]>>, <<k_total, x[4]>>, <<k_per_type, x[5]>> >>) :
     x \in TypeFields \X SpeciesFields \X NumberFields \X TotalFields
           \X NumberFields}

\* const seeds = expandGrovePlan(cmd.payload || {})
ExpandGrove ==
  /\ ~expanded
  /\ seeds' = expandGrovePlan(OrEmptyObject(plan))
  /\ expanded' = TRUE
  /\ UNCHANGED <<plan, chatVars, serverVars, netVars, feedVars, nudgeVars, schedulerVars,
                 observerVars>>

(***************************************************************************)
(* The inspector server (src/src/index.ts)                                 *)
(***************************************************************************)
k_id == <<"i", "d">>

k_base == <<"b", "a", "s", "e">>

k_properties == <<"p", "r", "o", "p", "e", "r", "t", "i", "e", "s">>

k_magic == <<"m", "a", "g", "i", "c">>

k_theme == <<"t", "h", "e", "m", "e">>

k_textSize == <<"t", "e", "x", "t", "S", "i", "z", "e">>

s_dark == <<"d", "a", "r", "k">>

s_light == <<"l", "i", "g", "h", "t">>

\* let preferences = { magic: true, theme: 'dark', textSize: 16 }
InitialPreferences ==
  [magic |-> TRUE, theme |-> s_dark, textSize |-> JNum(16)]

\* the bodies of the requests to POST /api/deku-nuts; <<>> is no body
DekuBodies ==
  { <<>>,
    <<"{", "\"", "i", "d", "\"", ":", "\"", "a", "\"", ",", "\"", "b", "a",
      "s", "e", "\"", ":", "1", "}">>,
    <<"{", "\"", "i", "d", "\"", ":", "\"", "a", "\"", ",", "\"", "b", "a",
      "s", "e", "\"", ":", "2", "}">>,
    <<"{", "\"", "i", "d", "\"", ":", "\"", "b", "\"", "}">>,
    <<"n", "u", "l", "l">> }

\* the bodies of the requests to POST /api/prefs
PrefsBodies ==
  { <<"{", "\"", "t", "h", "e", "m", "e", "\"", ":", "1", "}">>,
   <<"{", "\"", "m", "a", "g", "i", "c", "\"", ":", "f", "a", "l", "s",
      "e", "}">>,
    <<"{", "\"", "m", "a", "g", "i", "c", "\"", ":", "t", "r", "u", "e", "}">>,
    <<"{", "\"", "t", "h", "e", "m", "e", "\"", ":", "\"", "l", "i", "g",
      "h", "t", "\"", ",", "\"", "t", "e", "x", "t", "S", "i", "z", "e",
      "\"", ":", "3", "0", "}">>,
    <<"{", "\"", "t", "e", "x", "t", "S", "i", "z", "e", "\"", ":", "1", "5", ".", "5", "}">>,
    <<"{">> }

\* the bodies of the requests to POST /api/trees
TreeBodies ==
  { <<>>,
    <<"{", "\"", "s", "p", "e", "c", "i", "e", "s", "\"", ":", "\"", "o",
      "a", "k", "\"", "}">>,
    <<"{">> }

s_oops == <<"o", "o", "p", "s">>

\* message.content of the reply of the external model, or none
Contents ==
  { Undefined,
    JStr(<<"{", "\"", "n", "a", "m", "e", "\"", ":", "\"", "E", "l", "d", "e",
           "r", " ", "O", "a", "k", "\"", ",", "\"", "h", "e", "i", "g", "h",
           "t", "\"", ":", "3", "0", "}">>),
    JStr(<<"{", "\"", "h", "e", "i", "g", "h", "t", "\"", ":", "\"", "t", "a",
           "l", "l", "\"", "}">>),
    JStr(s_oops) }

\* what happens to the call of the external model: the fetch fails, it is
\* aborted after 15 s, the status is not OK, the body is no JSON, or the
\* body is read
ModelOutcomes ==
  {[kind |-> k, content |-> Undefined] :
     k \in {"network", "timeout", "status", "body"}}
  \cup {[kind |-> "content", content |-> c] : c \in Contents}

\* body.key of a parsed body: a primitive has no such property
Prop(body, key) == IF body.t = "object" THEN Get(body, key) ELSE Undefined

\* chunks.length ? JSON.parse(...) : {}
parseBody(text) == IF text = <<>> THEN EmptyObject ELSE JSONparse(text)

\* JSON.parse throws, or a property of null is read
bodyThrows(body) == body = JError \/ body.t = "null"

\* String(e?.message || e): what the catch reports of a body that throws
thrownBy(body) == IF body = JError THEN "SyntaxError" ELSE "TypeError"

\* typeof body.id === 'string' ? body.id : undefined
dekuId(body) ==
  IF Prop(body, k_id).t = "string" THEN Prop(body, k_id) ELSE Undefined

\* Number.isFinite(body.base) ? Number(body.base) : null
dekuBase(body) ==
  IF Prop(body, k_base).t = "number" THEN Prop(body, k_base) ELSE JNull

\* the row of VALUES (id, base, properties)
dekuRow(body) ==
  [id |-> dekuId(body).v, base |-> dekuBase(body),
   properties |->
     JSONstringify(Coalesce(Prop(body, k_properties), EmptyObject))]

\* insertDekuNut without ON CONFLICT (id) DO NOTHING
insertWithoutConflictClause(table, row) == Append(table, row)

\* INSERT INTO deku_nuts ... ON CONFLICT (id) DO UPDATE: the row stored
\* under the id is replaced
insertOrUpdate(table, row) ==
  IF \E i \in 1..Len(table) : table[i].id = row.id
    THEN [i \in 1..Len(table) |->
            IF table[i].id = row.id THEN row ELSE table[i]]
    ELSE Append(table, row)

\* INSERT INTO deku_nuts ... ON CONFLICT (id) DO NOTHING
insertDekuNut(table, row) ==
  IF \E i \in 1..Len(table) : table[i].id = row.id
    THEN table
    ELSE Append(table, row)

\* res.end(JSON.stringify(...)) to the request req, whose body was text
Respond(req, url, text, status, body) ==
  responses' = Append(responses,
                 [req |-> req, url |-> url, request |-> text,
                  status |-> status, body |-> body])

\* broadcast(evt)
broadcast(evt) == events' = Append(events, evt)

\* the handler of POST /api/deku-nuts for the parsed body; dbOk: the store
\* executes the statement
ServeDekuNuts(text, body, dbOk) ==
  IF bodyThrows(body)
    \* caught by the catch of the request listener
    THEN /\ Respond(served + 1, "deku-nuts", text, 500, thrownBy(body))
         /\ UNCHANGED <<deku_nuts, events>>
  ELSE IF Truthy(dekuId(body)) /\ ~dbOk
    \* runPsql throws: caught by the catch of the request listener
    THEN /\ Respond(served + 1, "deku-nuts", text, 500, "psql")
         /\ UNCHANGED <<deku_nuts, events>>
  ELSE /\ deku_nuts' = IF Truthy(dekuId(body))
                         THEN insertDekuNut(deku_nuts, dekuRow(body))
                         ELSE deku_nuts
       /\ Respond(served + 1, "deku-nuts", text, 200, "ok")
       /\ broadcast("deku_nuts:created")

\* POST /api/deku-nuts
PostDekuNuts ==
  /\ served < MaxRequests
  /\ served' = served + 1
  /\ \E text \in DekuBodies, dbOk \in BOOLEAN :
       ServeDekuNuts(text, parseBody(text), dbOk)
  /\ UNCHANGED <<preferences, apiKey, trees, inflight, calls, generated>>
  /\ UNCHANGED <<chatVars, groveVars, netVars, feedVars, nudgeVars, schedulerVars,
                 observerVars>>

\* Math.max(12, Math.min(22, Number(body.textSize))): a number with a
\* fraction strictly between the bounds is kept as it is
clampTextSize(n) ==
  IF n.t = "number"
    THEN JNum(Max({12, Min({22, n.v})}))
  ELSE IF n.v[1] = "-" \/ parseInt(wholePart(n.v)) < 12 THEN JNum(12)
  ELSE IF parseInt(wholePart(n.v)) >= 22 THEN JNum(22)
  ELSE n

\* the preferences replaced by those of the body, a field that is absent
\* or invalid falling back to its initial value
updatedReplacing(prefs, magic, theme, textSize) ==
  [magic |-> IF magic.t = "boolean" THEN magic.v
             ELSE InitialPreferences.magic,
   theme |-> IF theme \in {JStr(s_light), JStr(s_dark)}
               THEN theme.v ELSE InitialPreferences.theme,
   textSize |-> IF textSize.t \in {"number", "decimal"}
                  THEN clampTextSize(textSize)
                  ELSE InitialPreferences.textSize]

\* the preferences after the three updates of POST /api/prefs
updated(prefs, magic, theme, textSize) ==
  [magic |-> IF magic.t = "boolean" THEN magic.v ELSE prefs.magic,
   theme |-> IF theme \in {JStr(s_light), JStr(s_dark)}
               THEN theme.v ELSE prefs.theme,
   textSize |-> IF textSize.t \in {"number", "decimal"}
                  THEN clampTextSize(textSize) ELSE prefs.textSize]

\* the handler of POST /api/prefs for the parsed body
ServePrefs(text, body) ==
  IF bodyThrows(body)
    THEN /\ Respond(served + 1, "prefs", text, 400, thrownBy(body))
         /\ UNCHANGED preferences
    ELSE /\ preferences' = updated(preferences, Prop(body, k_magic),
                                   Prop(body, k_theme),
                                   Prop(body, k_textSize))
         /\ Respond(served + 1, "prefs", text, 200, "ok")

\* POST /api/prefs
PostPrefs ==
  /\ served < MaxRequests
  /\ served' = served + 1
  /\ \E text \in PrefsBodies : ServePrefs(text, parseBody(text))
  /\ UNCHANGED <<apiKey, deku_nuts, trees, inflight, calls, generated, events>>
  /\ UNCHANGED <<chatVars, groveVars, netVars, feedVars, nudgeVars, schedulerVars,
                 observerVars>>

\* usesFallback without the test of preferences.magic: only the credential counts
usesFallbackIgnoringMagic(magic, key) == ~key

\* if (!preferences.magic) return fallback(); if (!apiKey) return fallback()
usesFallback(magic, key) == ~magic \/ ~key

\* generateTreeViaOpenAI has returned candidate for the request r; then
\* insertTree, the response and the broadcast of POST /api/trees
FinishTree(r, how, content, candidate, dbOk) ==
  /\ generated' = Append(generated,
                    [req |-> r.req, seed |-> r.seed, magic |-> r.magic,
                     how |-> how, content |-> content,
                     name |-> candidate.name, height |-> candidate.height,
                     source |-> candidate.source])
  /\ IF dbOk
       THEN /\ trees' = Append(trees,
                          [id |-> Len(trees) + 1, name |-> candidate.name,
                           height |-> candidate.height])
            /\ Respond(r.req, "trees", r.text, 200, "saved")
            /\ broadcast("trees:created")
       \* runPsql throws: caught by the catch of the handler
       ELSE /\ Respond(r.req, "trees", r.text, 500, "psql")
            /\ UNCHANGED <<trees, events>>

\* typeof body === 'object' && body ? body : {}
seedOf(body) == IF body.t \in {"object", "array"} THEN body ELSE EmptyObject

\* the handler of POST /api/trees for the request r, up to the call of the
\* external model
ServeTrees(r, body, dbOk) ==
  IF body = JError
    THEN /\ Respond(r.req, "trees", r.text, 500, thrownBy(body))
         /\ UNCHANGED <<trees, inflight, calls, generated, events>>
  ELSE IF usesFallback(preferences.magic, apiKey)
    THEN /\ FinishTree(r, IF preferences.magic THEN "credential" ELSE "disabled",
                       Undefined, fallback(r.seed), dbOk)
         /\ UNCHANGED <<inflight, calls>>
  ELSE /\ Len(calls) < MaxCalls
       /\ inflight' = inflight \cup {r}
       /\ calls' = Append(calls, r)
       /\ UNCHANGED <<trees, generated, responses, events>>

\* POST /api/trees, up to the call of the external model
PostTrees ==
  /\ served < MaxRequests
  /\ served' = served + 1
  /\ \E text \in TreeBodies, dbOk \in BOOLEAN :
       ServeTrees([req |-> served + 1, text |-> text,
                   seed |-> seedOf(parseBody(text)),
                   magic |-> preferences.magic],
                  parseBody(text), dbOk)
  /\ UNCHANGED <<preferences, apiKey, deku_nuts>>
  /\ UNCHANGED <<chatVars, groveVars, netVars, feedVars, nudgeVars, schedulerVars,
                 observerVars>>

\* the call of the external model ends; POST /api/trees continues
ModelReplies ==
  /\ \E r \in inflight, outcome \in ModelOutcomes, dbOk \in BOOLEAN :
       /\ inflight' = inflight \ {r}
       /\ FinishTree(r, outcome.kind, outcome.content,
                     IF outcome.kind = "content"
                       THEN fromContent(outcome.content)
                       ELSE fallback(r.seed),
                     dbOk)
  /\ UNCHANGED <<preferences, apiKey, deku_nuts, calls, served>>
  /\ UNCHANGED <<chatVars, groveVars, netVars, feedVars, nudgeVars, schedulerVars,
                 observerVars>>

(***************************************************************************)
(* Specifications                                                          *)
(***************************************************************************)
ChatIdle ==
  /\ input = <<>> /\ agentData = Rejected /\ pc = "idle"
  /\ todo = <<>> /\ pending = <<>> /\ requests = <<>> /\ nextId = 1
  /\ arrived = <<>>

FeedIdle ==
  /\ journal = <<>> /\ sseClients = <<>> /\ broken = {} /\ awaiting = {}
  /\ shuffledWorldTree = <<>> /\ worldTreeIdx = 0 /\ nudgeCount = 0

GroveIdle == plan = Undefined /\ seeds = <<>> /\ expanded = TRUE

\* the inspector page is not open
PageClosed == tasks = <<>> /\ now = 0 /\ runLog = <<>>

\* no observer has connected
NoObserver == pings = {} /\ connections = <<>>

ServerStarted ==
  /\ preferences = InitialPreferences
  /\ deku_nuts = <<>> /\ trees = <<>> /\ inflight = {} /\ calls = <<>>
  /\ generated = <<>> /\ responses = <<>> /\ events = <<>> /\ served = 0

\* a line of UserTexts is typed, or the line s_hi, which is forwarded
Init ==
  /\ \/ input \in UserTexts /\ agentData \in BasicReplies
     \/ input = s_hi /\ agentData \in AgentReplies
  /\ pc = "question"
  /\ todo = <<>>
  /\ pending = <<>>
  /\ requests = <<>>
  /\ nextId = 1
  /\ arrived = <<>>
  /\ GroveIdle
  /\ ServerStarted /\ apiKey = FALSE
  /\ FeedIdle
  /\ PageClosed
  /\ NoObserver

Next == HandleUserInput \/ TreeResponse \/ AgentResponse

\* the chat loop serving one line
Spec == Init /\ [][Next]_vars

InitGrove ==
  /\ plan \in Plans
  /\ seeds = <<>>
  /\ expanded = FALSE
  /\ ChatIdle
  /\ ServerStarted /\ apiKey = FALSE
  /\ FeedIdle
  /\ PageClosed
  /\ NoObserver

NextGrove == ExpandGrove

\* the expansion of one GROW_GROVE / GROW_FOREST command
SpecGrove == InitGrove /\ [][NextGrove]_vars

InitServer ==
  /\ ServerStarted
  /\ apiKey \in BOOLEAN
  /\ ChatIdle
  /\ GroveIdle
  /\ FeedIdle
  /\ PageClosed
  /\ NoObserver

NextServer == PostDekuNuts \/ PostPrefs \/ PostTrees \/ ModelReplies

\* the inspector server serving up to MaxRequests requests
SpecServer == InitServer /\ [][NextServer]_vars

(***************************************************************************)
(* The way from the chat loop to the inspector server: postJson is not     *)
(* awaited, so its requests are on their way together                      *)
(***************************************************************************)
\* the phrases the handler resolves without the agent
ResolvedTexts == {t \in Phrases : ~UserPlan(t).forward}

\* the places in requests of the requests to the inspector server
toInspector == {p \in 1..Len(requests) : requests[p].url # "agent"}

\* the places the server has handled
handled == {arrived[k] : k \in 1..Len(arrived)}

\* the inspector server handles one of the requests on their way to it
Arrives ==
  /\ \E p \in toInspector \ handled : arrived' = Append(arrived, p)
  /\ UNCHANGED <<chatVars, groveVars, serverVars, feedVars, nudgeVars, schedulerVars,
                 observerVars>>

\* the awaited fetch of the tree endpoint ends: with an answer of the server
\* once the server has handled the request, or with a failure
TreeReply ==
  \E outcome \in TreeOutcomes :
    /\ outcome # "reject" => Len(requests) \in handled
    /\ TreeAnswers(outcome)

InitDelivery ==
  /\ input \in ResolvedTexts
  /\ agentData = Rejected
  /\ pc = "question"
  /\ todo = <<>>
  /\ pending = <<>>
  /\ requests = <<>>
  /\ nextId = 1
  /\ arrived = <<>>
  /\ GroveIdle
  /\ ServerStarted /\ apiKey = FALSE
  /\ FeedIdle
  /\ PageClosed
  /\ NoObserver

NextDelivery == HandleUserInput \/ TreeReply \/ Arrives

\* the chat loop serving one line, and the inspector server handling its
\* requests
SpecDelivery == InitDelivery /\ [][NextDelivery]_vars

(***************************************************************************)
(* The feed of the inspector server: POST /api/messages, /api/command-logs *)
(* and /api/chat, and the observers of GET /api/events (src/src/index.ts)  *)
(***************************************************************************)
\* the largest number of observers that connect
MaxClients == 2

\* the largest number of statements the store fails to execute
MaxFailures == 1

\* the largest number of requests served while observers come and go
MaxEvents == 2

k_role == <<"r", "o", "l", "e">>

k_meta == <<"m", "e", "t", "a">>

k_command == <<"c", "o", "m", "m", "a", "n", "d">>

k_payload == <<"p", "a", "y", "l", "o", "a", "d">>

\* the request numbered n, the tick numbered n
Request(n) == [kind |-> "request", n |-> n]

\* runPsql(`INSERT INTO table ...`) by the handler by; ok: the store
\* executes the statement, else runPsql throws
Insert(by, table, row) ==
  [op |-> "insert", by |-> by, table |-> table, row |-> row, ok |-> TRUE]

\* the place of the first handle of clients whose write throws, or the
\* place after the last handle
firstThrowing(clients, throwing) ==
  Min({i \in 1..Len(clients) : clients[i] \in throwing} \cup {Len(clients) + 1})

\* the loop of broadcast with the try/catch around the whole loop: the
\* first write that throws ends it
writesUntilFailure(clients, throwing) ==
  [written |-> SubSeq(clients, 1, firstThrowing(clients, throwing) - 1),
   failed |-> {clients[i] : i \in {firstThrowing(clients, throwing)}
                                    \cap (1..Len(clients))}]

\* for (const client of sseClients) { try { client.write(payload) } catch {} }
\* the handles written, in order, and the handles whose write threw
writes(clients, throwing) ==
  [written |-> SelectSeq(clients, LAMBDA h : h \notin throwing),
   failed |-> {h \in throwing : \E i \in 1..Len(clients) : clients[i] = h}]

\* what broadcast(evt) does with the observers connected
Written(by, evt, w) ==
  [op |-> "broadcast", by |-> by, type |-> evt, clients |-> sseClients,
   written |-> w.written, failed |-> w.failed, ok |-> TRUE]

\* broadcast(evt) called by the handler by
Broadcast(by, evt) == Written(by, evt, writes(sseClients, broken))

\* fetch(`http://localhost:${serverPort}/${agentId}/message`, ...)
Fetch(by, text, userId) ==
  [op |-> "fetch", by |-> by, text |-> text, userId |-> userId, ok |-> TRUE]

\* the number of statements that have thrown so far
failures ==
  Cardinality({i \in 1..Len(journal) :
                 journal[i].op = "insert" /\ ~journal[i].ok})

\* the store may fail to execute the next statement
MayFail == failures < MaxFailures

\* the store may fail to execute the next statement and the one of the
\* catch: catchOk tells whether the latter is executed
MayFailThen(catchOk) ==
  IF catchOk THEN failures < MaxFailures ELSE failures + 1 < MaxFailures

\* the places of steps where a statement is run
statements(steps) == {i \in 1..Len(steps) : steps[i].op = "insert"}

\* the steps done when the statement at place failAt throws (0: none does)
Performed(steps, failAt) ==
  IF failAt = 0
    THEN steps
    ELSE SubSeq(steps, 1, failAt - 1) \o <<[steps[failAt] EXCEPT !.ok = FALSE]>>

\* try { runPsql(`INSERT INTO command_logs ...`) } catch {}
Swallowed(by, command, payload, ok) ==
  <<[Insert(by, "command_logs", [command |-> command, payload |-> payload])
       EXCEPT !.ok = ok]>>

\* typeof v === 'string' ? v : otherwise
StringOr(v, otherwise) == IF v.t = "string" THEN v.v ELSE otherwise

\* String(m?.text || '')
TextOf(m) ==
  IF m.t = "object" /\ Truthy(Get(m, k_text))
    THEN toString(Get(m, k_text))
    ELSE <<>>

s_unknown == <<"u", "n", "k", "n", "o", "w", "n">>

\* the row of POST /api/messages
messageRow(body) ==
  [role |-> StringOr(Prop(body, k_role), s_unknown),
   text |-> StringOr(Prop(body, k_text), <<>>),
   meta |-> JSONstringify(Coalesce(Prop(body, k_meta), EmptyObject))]

\* the handler of POST /api/messages for the parsed body
ServeMessages(by, text, body, dbOk) ==
  IF bodyThrows(body)
    \* caught by the catch of the request listener
    THEN /\ Respond(by.n, "messages", text, 500, thrownBy(body))
         /\ UNCHANGED journal
  ELSE IF ~dbOk
    THEN /\ Respond(by.n, "messages", text, 500, "psql")
         /\ journal' = journal \o
              Performed(<<Insert(by, "messages", messageRow(body))>>, 1)
  ELSE /\ Respond(by.n, "messages", text, 200, "ok")
       /\ journal' = journal \o
            <<Insert(by, "messages", messageRow(body)),
              Broadcast(by, "messages:created")>>

\* the bodies sent to POST /api/messages: none, a message, a text that is
\* not JSON
MessageBodies ==
  {<<>>, <<"{", "\"", "r", "o", "l", "e", "\"", ":", "\"", "a", "g", "e", "n", "t", "\"", ",", "\"", "t", "e", "x", "t", "\"", ":", "\"", "h", "i", "\"", "}">>, <<"{">>}

\* POST /api/messages
PostMessages ==
  /\ served < MaxRequests
  /\ served' = served + 1
  /\ \E text \in MessageBodies, dbOk \in BOOLEAN :
       /\ ~dbOk => MayFail
       /\ ServeMessages(Request(served + 1), text, parseBody(text), dbOk)
  /\ UNCHANGED <<preferences, apiKey, deku_nuts, trees, inflight, calls,
                 generated, events>>
  /\ UNCHANGED <<sseClients, broken, awaiting>>
  /\ UNCHANGED <<chatVars, groveVars, netVars, nudgeVars, schedulerVars,
                 observerVars>>

\* logCommand(cmd, payload): the failure of the statement is swallowed
logCommand(by, cmd, payload, dbOk) ==
  Swallowed(by, cmd, JSONstringify(OrEmptyObject(payload)), dbOk)

\* the handler of POST /api/command-logs for the parsed body
ServeCommandLogs(by, text, body, dbOk) ==
  IF bodyThrows(body)
    THEN /\ Respond(by.n, "command-logs", text, 500, thrownBy(body))
         /\ UNCHANGED journal
    ELSE /\ Respond(by.n, "command-logs", text, 200, "ok")
         /\ journal' = journal
              \o logCommand(by, StringOr(Prop(body, k_command), s_unknown),
                            Coalesce(Prop(body, k_payload), EmptyObject), dbOk)
              \o <<Broadcast(by, "command_logs:created")>>

\* the bodies sent to POST /api/command-logs: a command, null
LogBodies ==
  {<<"{", "\"", "c", "o", "m", "m", "a", "n", "d", "\"", ":", "\"", "t", "r", "e", "e", "\"", "}">>, <<"n", "u", "l", "l">>}

\* POST /api/command-logs
PostCommandLogs ==
  /\ served < MaxRequests
  /\ served' = served + 1
  /\ \E text \in LogBodies, dbOk \in BOOLEAN :
       /\ ~dbOk => MayFail
       /\ ServeCommandLogs(Request(served + 1), text, parseBody(text), dbOk)
  /\ UNCHANGED <<preferences, apiKey, deku_nuts, trees, inflight, calls,
                 generated, events>>
  /\ UNCHANGED <<sseClients, broken, awaiting>>
  /\ UNCHANGED <<chatVars, groveVars, netVars, nudgeVars, schedulerVars,
                 observerVars>>

\* the catch of POST /api/chat without its statement: the request is
\* answered with status 500 and nothing is logged
ChatFailsUnlogged(by, text, done, error, catchOk) ==
  /\ journal' = journal \o done
  /\ Respond(by.n, "chat", text, 500, error)

\* the catch of POST /api/chat: the error is logged, best effort, and the
\* request is answered with status 500
ChatFails(by, text, done, error, catchOk) ==
  /\ journal' = journal \o done
                  \o Swallowed(by, "chat_forward_error", error, catchOk)
  /\ Respond(by.n, "chat", text, 500, error)

\* the steps of POST /api/chat up to the call of the agent endpoint
chatSteps(by, text) ==
  <<Insert(by, "messages", [role |-> "user", text |-> text, meta |-> "{}"]),
    Broadcast(by, "messages:created"),
    Insert(by, "command_logs", [command |-> "chat_receive", payload |-> text]),
    Fetch(by, text, "user")>>

\* the handler of POST /api/chat for the parsed body, up to the call of the
\* agent endpoint; failAt: the statement that throws, 0 when none does
ServeChat(by, text, body, failAt, catchOk) ==
  IF bodyThrows(body)
    THEN /\ ChatFails(by, text, <<>>, thrownBy(body), catchOk)
         /\ UNCHANGED awaiting
  ELSE IF failAt # 0
    THEN /\ ChatFails(by, text,
                      Performed(chatSteps(by, StringOr(Prop(body, k_text), <<>>)),
                                failAt),
                      "psql", catchOk)
         /\ UNCHANGED awaiting
  ELSE /\ journal' = journal \o chatSteps(by, StringOr(Prop(body, k_text), <<>>))
       /\ awaiting' = awaiting \cup {[by |-> by, text |-> text]}
       /\ UNCHANGED responses

\* the bodies sent to POST /api/chat: a text, a text that is not JSON
ChatBodies ==
  {<<"{", "\"", "t", "e", "x", "t", "\"", ":", "\"", "h", "i", "\"", "}">>, <<"{">>}

\* POST /api/chat, up to the call of the agent endpoint
PostChat ==
  /\ served < MaxRequests
  /\ served' = served + 1
  /\ \E text \in ChatBodies, failAt \in {0, 1, 3}, catchOk \in BOOLEAN :
       /\ IF parseBody(text) = JError
            THEN failAt = 0 /\ (~catchOk => MayFail)
            ELSE IF failAt = 0 THEN catchOk ELSE MayFailThen(catchOk)
       /\ ServeChat(Request(served + 1), text, parseBody(text), failAt, catchOk)
  /\ UNCHANGED <<preferences, apiKey, deku_nuts, trees, inflight, calls,
                 generated, events>>
  /\ UNCHANGED <<sseClients, broken>>
  /\ UNCHANGED <<chatVars, groveVars, netVars, nudgeVars, schedulerVars,
                 observerVars>>

\* what the agent endpoint answers to the inspector server: the fetch or the
\* reading of its body fails, an object, or an array of messages
FeedReplies ==
  {Rejected, EmptyObject, JArr(<<>>), JArr(<<Message(s_hi)>>),
   JArr(<<Message(s_hi), JNull>>)}

\* for (const m of data) { runPsql(`INSERT INTO messages ...`) }
agentRows(by, data, meta) ==
  [i \in 1..Len(data) |->
     Insert(by, "messages",
            [role |-> "agent", text |-> TextOf(data[i]), meta |-> meta])]

\* the steps of POST /api/chat after the answer data of the agent endpoint
replySteps(by, data) ==
  IF data.t = "array"
    THEN agentRows(by, data.v, "{}")
         \o <<Broadcast(by, "messages:created"),
              Insert(by, "command_logs",
                     [command |-> "chat_forward_ok", payload |-> Len(data.v)])>>
    ELSE <<>>

\* POST /api/chat after the answer data of the agent endpoint to handler a
ChatContinues(a, data, failAt, catchOk) ==
  IF data = Rejected
    THEN ChatFails(a.by, a.text, <<>>, "fetch", catchOk)
  ELSE IF failAt # 0
    THEN ChatFails(a.by, a.text, Performed(replySteps(a.by, data), failAt),
                   "psql", catchOk)
  ELSE /\ journal' = journal \o replySteps(a.by, data)
       /\ Respond(a.by.n, "chat", a.text, 200, "ok")

\* the agent endpoint answers a call of POST /api/chat
AgentAnswersChat ==
  /\ \E a \in {x \in awaiting : x.by.kind = "request"}, data \in FeedReplies,
        catchOk \in BOOLEAN :
       /\ awaiting' = awaiting \ {a}
       /\ \E failAt \in {0} \cup statements(replySteps(a.by, data)) :
            /\ IF data = Rejected
                 THEN failAt = 0 /\ (~catchOk => MayFail)
                 ELSE IF failAt = 0 THEN catchOk ELSE MayFailThen(catchOk)
            /\ ChatContinues(a, data, failAt, catchOk)
  /\ UNCHANGED <<preferences, apiKey, deku_nuts, trees, inflight, calls,
                 generated, events, served>>
  /\ UNCHANGED <<sseClients, broken>>
  /\ UNCHANGED <<chatVars, groveVars, netVars, nudgeVars, schedulerVars,
                 observerVars>>

\* the handles of the observers connected
handles == {sseClients[i] : i \in 1..Len(sseClients)}

\* the handle GET /api/events gives to the next observer: a fresh number
freshHandle == Min((1..MaxClients) \ (handles \cup broken))

\* req.on('close', ...) for the handle h: only sseClients.delete(res), the
\* interval left running
timersLeftRunning(h) == pings

\* req.on('close', ...) for the handle h: clearInterval(ping)
timersAfterClose(h) == pings \ {h}

\* GET /api/events: sseClients.add(res); setInterval(ping, 30000)
Connect ==
  /\ (1..MaxClients) \ (handles \cup broken) # {}
  /\ sseClients' = Append(sseClients, freshHandle)
  /\ pings' = pings \cup {freshHandle}
  /\ connections' = Append(connections, [handle |-> freshHandle,
                                         closed |-> FALSE])
  /\ UNCHANGED <<journal, broken, awaiting>>
  /\ UNCHANGED <<chatVars, groveVars, serverVars, netVars, nudgeVars,
                 schedulerVars>>

\* req.on('close', ...): clearInterval(ping); sseClients.delete(res); a
\* write to the closed connection fails from now on
Close ==
  /\ \E h \in handles :
       /\ sseClients' = SelectSeq(sseClients, LAMBDA x : x # h)
       /\ pings' = timersAfterClose(h)
       /\ connections' = [k \in 1..Len(connections) |->
                            IF connections[k].handle = h
                              THEN [connections[k] EXCEPT !.closed = TRUE]
                              ELSE connections[k]]
       /\ broken' = broken \cup {h}
  /\ UNCHANGED <<journal, awaiting>>
  /\ UNCHANGED <<chatVars, groveVars, serverVars, netVars, nudgeVars,
                 schedulerVars>>

\* from now on client.write throws for the handle of an observer
Breaks ==
  /\ \E h \in handles \ broken : broken' = broken \cup {h}
  /\ UNCHANGED <<journal, sseClients, awaiting>>
  /\ UNCHANGED <<chatVars, groveVars, serverVars, netVars, nudgeVars, schedulerVars,
                 observerVars>>

\* the server has started; an observer may have connected
InitFeed ==
  /\ ServerStarted /\ apiKey = FALSE
  /\ journal = <<>>
  /\ sseClients \in {<<>>, <<1>>}
  /\ broken = {} /\ awaiting = {}
  /\ shuffledWorldTree = <<>> /\ worldTreeIdx = 0 /\ nudgeCount = 0
  /\ ChatIdle
  /\ GroveIdle
  /\ PageClosed
  /\ pings = handles
  /\ connections = [k \in 1..Len(sseClients) |->
                      [handle |-> sseClients[k], closed |-> FALSE]]

NextFeed == PostMessages \/ PostCommandLogs \/ PostChat \/ AgentAnswersChat

\* the inspector server serving up to MaxRequests requests of its feed
SpecFeed == InitFeed /\ [][NextFeed]_vars

InitObservers ==
  /\ ServerStarted /\ apiKey = FALSE
  /\ FeedIdle
  /\ ChatIdle
  /\ GroveIdle
  /\ PageClosed
  /\ NoObserver

NextObservers ==
  \/ served < MaxEvents /\ PostMessages
  \/ served < MaxEvents /\ PostCommandLogs
  \/ Connect \/ Close \/ Breaks

\* the inspector server storing up to MaxEvents messages and command logs
\* while up to MaxClients observers connect, fail and leave
SpecObservers == InitObservers /\ [][NextObservers]_vars

(***************************************************************************)
(* The stimulus loop: the World Tree nudge of setInterval                  *)
(* (src/src/index.ts)                                                      *)
(***************************************************************************)
\* the number of lines of the library
LibraryLength == 2

\* the largest number of ticks
MaxTicks == 4

\* lines of the library with their groups
Lines ==
  <<[type |-> "worldbuilding", text |-> <<"C", "O", "M", "M", "A", "N", "D", ":", " ", "T", "R", "E", "E", ".", "C", "A", "L", "L", "_", "B", "I", "R", "D", "S", " ", "{", "\"", "s", "p", "e", "c", "i", "e", "s", "\"", ":", " ", "\"", "f", "i", "n", "c", "h", "\"", ",", " ", "\"", "c", "o", "u", "n", "t", "\"", ":", " ", "3", "}">>],
    [type |-> "wisdom", text |-> <<"R", "o", "o", "t", "s", " ", "s", "h", "a", "r", "e", " ", "f", "i", "r", "s", "t", ",", " ", "t", "h", "e", "n", " ", "g", "r", "o", "w", ".">>],
    [type |-> "worldbuilding", text |-> <<"C", "O", "M", "M", "A", "N", "D", ":", " ", "F", "O", "G", ".", "L", "I", "F", "T", " ", "{", "\"", "w", "i", "n", "d", "o", "w", "\"", ":", " ", "1", "0", "}">>],
    [type |-> "calming", text |-> <<"T", "r", "a", "d", "e", " ", "o", "n", "e", " ", "h", "u", "r", "r", "y", " ", "f", "o", "r", " ", "o", "n", "e", " ", "l", "i", "s", "t", "e", "n", ".">>],
    [type |-> "weather", text |-> <<"R", "i", "v", "e", "r", "s", " ", "w", "i", "l", "l", " ", "k", "e", "e", "p", " ", "t", "h", "e", "i", "r", " ", "p", "r", "o", "m", "i", "s", "e", "s", " ", "t", "o", "d", "a", "y", ".">>]>>

\* the library: its first LibraryLength lines
WORLD_TREE_LIBRARY == SubSeq(Lines, 1, LibraryLength)

\* the orders Array.prototype.sort can leave the library in when the
\* comparison is () => Math.random() - 0.5: its permutations
Shuffles ==
  {[i \in 1..LibraryLength |-> WORLD_TREE_LIBRARY[f[i]]] :
     f \in {g \in [1..LibraryLength -> 1..LibraryLength] :
              \A i, j \in 1..LibraryLength : i # j => g[i] # g[j]}}

\* the pick of a list without the wrap at its length: the last line is
\* picked again and again
pickWithoutWrap(list, idx) == list[Min({idx, Len(list) - 1}) + 1]

\* shuffledWorldTree[worldTreeIdx % shuffledWorldTree.length]
pick(list, idx) == list[(idx % Len(list)) + 1]

s_COMMAND == <<"C", "O", "M", "M", "A", "N", "D", ":">>

s_enhance == <<"\n", "\n", "e", "n", "h", "a", "n", "c", "e", " ", "t", "h", "i", "s", " ", "w", "i", "t", "h", " ", "m", "a", "g", "i", "c">>

\* /^COMMAND:\s*/.test(baseText) || item.type === 'worldbuilding'
isCommand(item) ==
  LitAt(item.text, 1, s_COMMAND) \/ item.type = "worldbuilding"

\* the text of a tick that embellishes every line, exotic or not
nudgeTextAlwaysEmbellished(item, exotic) == item.text \o s_enhance

\* exotic ? `${baseText}\n\nenhance this with magic` : baseText
nudgeText(item, exotic) ==
  IF exotic THEN item.text \o s_enhance ELSE item.text

\* the tick numbered n
Tick(n) == [kind |-> "tick", n |-> n]

\* the line picked by the tick by and the draw of Math.random() < 1/20
Picked(by, item, exotic) ==
  [op |-> "pick", by |-> by, item |-> item, exotic |-> exotic, ok |-> TRUE]

\* the synthetic user message of a tick
nudgeMessage(by, item, exotic, sent) ==
  Insert(by, "messages",
         [role |-> "user", text |-> nudgeText(item, exotic),
          meta |-> [source |-> "scheduler", nudge |-> by.n,
                    type |-> item.type, exotic |-> exotic, sent |-> sent]])

\* the command log of a tick, n being the value of nudgeCount read
nudgeLogAs(by, command, item, n) ==
  Insert(by, "command_logs",
         [command |-> command, nudge |-> n, type |-> item.type])

\* the command log of a tick before its await: nudgeCount is the number
\* of the tick
nudgeLog(by, command, item) == nudgeLogAs(by, command, item, by.n)

\* the steps of a tick up to the call of the agent endpoint, shouldSend
\* being isCommand || exotic
tickSteps(by, item, exotic, shouldSend) ==
  <<nudgeMessage(by, item, exotic, shouldSend),
    Broadcast(by, "messages:created")>>
  \o IF ~shouldSend
       THEN <<nudgeLog(by, "nudge_skip", item),
              Broadcast(by, "command_logs:created")>>
       ELSE <<nudgeLog(by, "nudge_send", item),
              Broadcast(by, "command_logs:created"),
              Fetch(by, nudgeText(item, exotic), "scheduler")>>

\* the catch of a tick: try { runPsql(nudge_error); broadcast(...) } catch {}
nudgeError(by, error, catchOk) ==
  Swallowed(by, "nudge_error", error, catchOk)
  \o IF catchOk THEN <<Broadcast(by, "command_logs:created")>> ELSE <<>>

\* one tick for the line item, up to the call of the agent endpoint;
\* failAt: the statement that throws, 0 when none does
StartTick(by, item, exotic, shouldSend, failAt, catchOk) ==
  IF failAt # 0
    THEN /\ journal' = journal
              \o <<Picked(by, item, exotic)>>
              \o Performed(tickSteps(by, item, exotic, shouldSend), failAt)
              \o nudgeError(by, "psql", catchOk)
         /\ UNCHANGED awaiting
    ELSE /\ journal' = journal
              \o <<Picked(by, item, exotic)>>
              \o tickSteps(by, item, exotic, shouldSend)
         /\ awaiting' = IF shouldSend
                          THEN awaiting \cup {[by |-> by, item |-> item]}
                          ELSE awaiting

\* the callback of setInterval, up to the call of the agent endpoint
Nudge ==
  /\ nudgeCount < MaxTicks
  /\ nudgeCount' = nudgeCount + 1
  /\ worldTreeIdx' = worldTreeIdx + 1
  /\ \E exotic \in BOOLEAN, failAt \in {0, 1, 3}, catchOk \in BOOLEAN :
       /\ IF failAt = 0 THEN catchOk ELSE MayFailThen(catchOk)
       /\ StartTick(Tick(nudgeCount + 1),
                    pick(shuffledWorldTree, worldTreeIdx), exotic,
                    isCommand(pick(shuffledWorldTree, worldTreeIdx)) \/ exotic,
                    failAt, catchOk)
  /\ UNCHANGED <<sseClients, broken, shuffledWorldTree>>
  /\ UNCHANGED <<chatVars, groveVars, serverVars, netVars, schedulerVars,
                 observerVars>>

\* what the agent endpoint answers to a tick
TickReplies == {Rejected, EmptyObject, JArr(<<Message(s_hi)>>)}

\* the steps of a tick after the answer data of the agent endpoint: the
\* variable nudgeCount, shared by all ticks, is read again
tickReplySteps(by, item, data) ==
  IF data.t = "array"
    THEN agentRows(by, data.v, [source |-> "scheduler", nudge |-> nudgeCount,
                                type |-> item.type])
         \o <<Broadcast(by, "messages:created"),
              nudgeLogAs(by, "nudge_reply", item, nudgeCount),
              Broadcast(by, "command_logs:created")>>
    ELSE <<>>

\* the tick a after the answer data of the agent endpoint
TickContinues(a, data, failAt, catchOk) ==
  IF data = Rejected
    THEN journal' = journal \o nudgeError(a.by, "fetch", catchOk)
  ELSE IF failAt # 0
    THEN journal' = journal
           \o Performed(tickReplySteps(a.by, a.item, data), failAt)
           \o nudgeError(a.by, "psql", catchOk)
  ELSE journal' = journal \o tickReplySteps(a.by, a.item, data)

\* the agent endpoint answers the call of a tick
AgentAnswersTick ==
  /\ \E a \in {x \in awaiting : x.by.kind = "tick"}, data \in TickReplies,
        catchOk \in BOOLEAN :
       /\ awaiting' = awaiting \ {a}
       /\ \E failAt \in {0} \cup statements(tickReplySteps(a.by, a.item, data)) :
            /\ IF data = Rejected
                 THEN failAt = 0 /\ (~catchOk => MayFail)
                 ELSE IF failAt = 0 THEN catchOk ELSE MayFailThen(catchOk)
            /\ TickContinues(a, data, failAt, catchOk)
  /\ UNCHANGED <<sseClients, broken, nudgeVars, schedulerVars,
                 observerVars>>
  /\ UNCHANGED <<chatVars, groveVars, serverVars, netVars>>

\* the server has started with the library shuffled
InitNudge ==
  /\ shuffledWorldTree \in Shuffles
  /\ worldTreeIdx = 0
  /\ nudgeCount = 0
  /\ journal = <<>> /\ sseClients = <<>> /\ broken = {} /\ awaiting = {}
  /\ ServerStarted /\ apiKey = FALSE
  /\ ChatIdle
  /\ GroveIdle
  /\ PageClosed
  /\ NoObserver

NextNudge == Nudge \/ AgentAnswersTick

\* the stimulus loop running up to MaxTicks ticks
SpecNudge == InitNudge /\ [][NextNudge]_vars

(***************************************************************************)
(* Properties of the chat loop (specification Spec)                        *)
(***************************************************************************)
\* the requests of rs that create an entity, in order
creations(rs) == SelectSeq(rs, LAMBDA r : r.url \in {"trees", "deku-nuts"})

\* the command logs of rs, in order
commandLogs(rs) == SelectSeq(rs, LAMBDA r : r.url = "command-logs")

\* (don't|do not|never|no)\s+(make|...|spawn|plant|grow|seed|sprout|raise)\b:
\* a negation word immediately followed by one of the ten creation verbs
negatedCreation(t, P) ==
  OnBoundary(t, AfterAlt(t, AfterSpaces1(t, AfterAlt(t, P, NegationWords)),
                         TreeVerbs))

s_dont_plant_a_tree == <<"d", "o", "n", "'", "t", " ", "p", "l", "a", "n", "t", " ", "a", " ", "t", "r", "e", "e">>

\* C1, as the specification states it: a text in which a negation word is
\* immediately followed by a creation verb, and which holds no explicit
\* command, makes the handler create no tree and no deku nut.
C1_NegationSuppresses ==
  (/\ RegexTest(negatedCreation, toLowerCase(input))
   /\ findExplicitCommands(input) = <<>>)
    => creations(requests) = <<>>

\* C1, the input that refutes it: "don't plant a tree" is typed and a tree
\* is requested
C1_NegatedPlantCreates ==
  /\ input = s_dont_plant_a_tree
  /\ \E i \in 1..Len(requests) : requests[i].url = "trees"

s_make_3_trees == <<"m", "a", "k", "e", " ", "3", " ", "t", "r", "e", "e", "s">>

\* C2, as the specification states it: the input "make 3 trees" is never
\* forwarded to the agent, and when the handler is done it has issued
\* exactly 3 tree requests, the i-th logged with index i and total 3.
C2_QuantityExecuted ==
  input = s_make_3_trees =>
    /\ \A i \in 1..Len(requests) : requests[i].url # "agent"
    /\ pc = "done" =>
         /\ Len(SelectSeq(requests, LAMBDA r : r.url = "trees")) = 3
         /\ Len(commandLogs(requests)) = 3
         /\ \A i \in 1..Len(commandLogs(requests)) :
              /\ commandLogs(requests)[i].command = "tree"
              /\ commandLogs(requests)[i].index = i
              /\ commandLogs(requests)[i].total = 3

\* C2, what the program does instead: "make 3 trees" is forwarded to the
\* agent and the handler ends without a single tree request
C2_QuantityForwarded ==
  /\ input = s_make_3_trees
  /\ pc = "done"
  /\ creations(requests) = <<>>
  /\ \E i \in 1..Len(requests) : requests[i].url = "agent"

\* the kind created first comes wholly before the kind created second
inOrder(cs, first, second) ==
  \A i, j \in 1..Len(cs) :
    (cs[i].url = first /\ cs[j].url = second) => i < j

\* both kinds are created, the kind whose keyword stands first in the text
\* wholly before the other
chained(cs, idxTree, idxDeku) ==
  /\ \E i \in 1..Len(cs) : cs[i].url = "trees"
  /\ \E i \in 1..Len(cs) : cs[i].url = "deku-nuts"
  /\ IF idxTree < idxDeku
       THEN inOrder(cs, "trees", "deku-nuts")
       ELSE inOrder(cs, "deku-nuts", "trees")

\* the text holds both a tree keyword (tree, sapling) and the word deku
bothKeywords(t) ==
  RegexSearch(treeKeyword, t) >= 0 /\ RegexSearch(dekuWord, t) >= 0

s_deku_tree == <<"d", "e", "k", "u", " ", "t", "r", "e", "e">>

\* C3, as the specification states it: when the handler is done with an
\* input that holds both a tree keyword and a deku keyword (and no
\* explicit command), it has created both kinds, the kind whose keyword
\* comes first wholly before the other.
C3_ChainInTextOrder ==
  (/\ pc = "done"
   /\ bothKeywords(toLowerCase(input))
   /\ findExplicitCommands(input) = <<>>)
    => chained(creations(requests),
               RegexSearch(treeKeyword, toLowerCase(input)),
               RegexSearch(dekuWord, toLowerCase(input)))

\* C3, the input that refutes it: the handler is done with "deku tree" and
\* has created a deku nut but no tree
C3_DekuTreeOnlyDeku ==
  /\ input = s_deku_tree
  /\ pc = "done"
  /\ \E i \in 1..Len(requests) : requests[i].url = "deku-nuts"
  /\ \A i \in 1..Len(requests) : requests[i].url # "trees"

\* the kinds of the commands logged in rs, a grove or a batch counting once
loggedKinds(rs) ==
  [i \in 1..Len(SelectSeq(commandLogs(rs), LAMBDA r : r.index <= 1)) |->
     SelectSeq(commandLogs(rs), LAMBDA r : r.index <= 1)[i].command]

\* the kinds of the explicit commands cmds, in order
kindsOf(cmds) == [i \in 1..Len(cmds) |-> cmds[i].kind]

\* ks is the start of es, and all of es when complete
startOf(ks, es, complete) ==
  /\ Len(ks) <= Len(es)
  /\ \A i \in 1..Len(ks) : ks[i] = es[i]
  /\ complete => Len(ks) = Len(es)

\* the requests rs issued for one text are those of its explicit commands
\* es alone: nothing is forwarded, a log carries an index only within a
\* grove, and the commands logged are the explicit commands in order, all
\* of them once the text is dealt with
onlyExplicit(rs, es, complete) ==
  /\ \A i \in 1..Len(rs) : rs[i].url # "agent"
  /\ \A i \in 1..Len(rs) :
       rs[i].url = "command-logs" =>
         rs[i].index = 0 \/ rs[i].action \in {s_grow_grove, s_grow_forest}
  /\ startOf(loggedKinds(rs), kindsOf(es), complete)

\* the places in requests where a message of the agent's reply is recorded
replies == {i \in 1..Len(requests) :
             requests[i].url = "messages" /\ requests[i].about = "reply"}

\* the requests issued for the message recorded at place i
segment(i) ==
  SubSeq(requests, i + 1,
         IF \E j \in replies : j > i
           THEN Min({j \in replies : j > i}) - 1
           ELSE Len(requests))

\* C4: whenever findExplicitCommands returns at least one command for the
\* input typed by the user, or for a message of the agent's reply, the
\* handler executes the explicit commands of that text, in order, and
\* nothing else for it: no natural-language tree or deku action, and no
\* forward of the input to the agent.
C4_ExplicitPrecedence ==
  /\ (pc # "question" /\ findExplicitCommands(input) # <<>>)
       => onlyExplicit(requests, findExplicitCommands(input), pc = "done")
  /\ \A i \in replies :
       findExplicitCommands(requests[i].text) # <<>>
         => onlyExplicit(segment(i), findExplicitCommands(requests[i].text),
                         pc = "done" \/ \E j \in replies : j > i)

\* C4, its case: the handler is done with an input that holds an explicit
\* command and a natural-language deku phrase as well
C4_ExplicitWithPhrase ==
  /\ pc = "done"
  /\ findExplicitCommands(input) # <<>>
  /\ wantsDeku(input)
  /\ kindsOf(findExplicitCommands(input)) = <<"tree">>
  /\ Len(creations(requests)) = 1

(***************************************************************************)
(* Properties of the plan expander (specification SpecGrove)               *)
(***************************************************************************)
\* the field key of the payload of the command; Undefined when missing
field(key) == Get(OrEmptyObject(plan), key)

\* the types the plan lists: tree_types when it is a list, else the single
\* species, else none
listed ==
  IF field(k_tree_types).t = "array" THEN field(k_tree_types).v
  ELSE IF field(k_species).t = "string" THEN <<field(k_species)>>
  ELSE <<>>

\* the types the seeds are drawn from: the listed ones, or the default
drawn == IF listed = <<>> THEN <<JStr(s_mystic)>> ELSE listed

\* the species of the seeds, in order
speciesOfSeeds == [i \in 1..Len(seeds) |-> Get(Get(seeds[i], k_seed), k_species)]

\* a field that is a number greater than zero
positive(v) == v.t = "number" /\ v.v > 0

\* a field that is missing, null, or a number not greater than zero
notPositive(v) == v.t \in {"undefined", "null"} \/ (v.t = "number" /\ v.v <= 0)

\* a field that is missing, or anything but a number greater than zero
missingOrInvalid(v) == ~positive(v)

\* C6: for every plan whose per_type is a number n > 0, whatever its count
\* and total, the expansion is n seeds of the first listed type, then n of
\* the second, and so on: n * k seeds for k listed types (the default type
\* standing for an empty list).
C6_PerTypeGrouped ==
  (expanded /\ positive(field(k_per_type))) =>
    speciesOfSeeds =
      [i \in 1..(field(k_per_type).v * Len(drawn)) |->
         drawn[((i - 1) \div field(k_per_type).v) + 1]]

\* C6, its case: {tree_types: [oak, pine], count: 3, per_type: 2} has been
\* expanded to four seeds
C6_TwoPerTypeWithCount ==
  /\ expanded
  /\ field(k_tree_types) = JArr(<<JStr(TypeNames[1]), JStr(TypeNames[2])>>)
  /\ field(k_per_type) = JNum(2)
  /\ field(k_count) = JNum(3)
  /\ Len(seeds) = 4

\* the count of the plan: count, or total when count is missing or null
counted == Coalesce(field(k_count), field(k_total))

C8_DefaultOnePerType ==
  (/\ expanded
   /\ missingOrInvalid(field(k_per_type))
   /\ missingOrInvalid(field(k_count))
   /\ missingOrInvalid(field(k_total)))
    => speciesOfSeeds = drawn

\* C8, the input that refutes it: {tree_types: [oak, pine], count: true}
\* has been expanded to a single seed
C8_BooleanCountOneSeed ==
  /\ expanded
  /\ field(k_tree_types) = JArr(<<JStr(TypeNames[1]), JStr(TypeNames[2])>>)
  /\ field(k_count) = JBool(TRUE)
  /\ field(k_per_type) = Undefined
  /\ field(k_total) = Undefined
  /\ Len(seeds) = 1

(***************************************************************************)
(* Properties of the inspector server (specification SpecServer)           *)
(***************************************************************************)
\* the id the request of response r submitted to POST /api/deku-nuts, or
\* Undefined
submitted(r) ==
  IF r.url = "deku-nuts" /\ ~bodyThrows(parseBody(r.request))
    THEN dekuId(parseBody(r.request))
    ELSE Undefined

\* the ids the store has accepted in answering the first n requests
accepted(n) ==
  {submitted(responses[i]).v :
     i \in {j \in 1..n : /\ responses[j].status = 200
                          /\ Truthy(submitted(responses[j]))}}

\* C5: after any sequence of submissions to POST /api/deku-nuts the table
\* holds exactly one row for each id it has accepted, and a submission of
\* an id already stored, which the store executes, is answered 200 {ok}
\* like the first one.
C5_DekuIdempotence ==
  /\ \A i, j \in 1..Len(deku_nuts) :
       deku_nuts[i].id = deku_nuts[j].id => i = j
  /\ {deku_nuts[i].id : i \in 1..Len(deku_nuts)} = accepted(Len(responses))
  /\ \A j \in 1..Len(responses) :
       (/\ Truthy(submitted(responses[j]))
        /\ submitted(responses[j]).v \in accepted(j - 1)
        /\ responses[j].body # "psql")
         => responses[j].status = 200 /\ responses[j].body = "ok"

\* C5, its case: an id has been submitted twice, with different bases, and
\* accepted twice, and the table holds the one row of the first submission
C5_SubmittedTwice ==
  /\ \E i, j \in 1..Len(responses) :
       /\ i < j
       /\ responses[i].status = 200 /\ responses[j].status = 200
       /\ Truthy(submitted(responses[i]))
       /\ submitted(responses[i]) = submitted(responses[j])
       /\ responses[i].request # responses[j].request
  /\ Len(deku_nuts) = 1

\* C9: a call of generateTreeViaOpenAI made while preferences.magic is
\* false makes no call to the external model, and two such calls with the
\* same seed return the same name and the same height, whatever requests
\* are served before, between and after them.
C9_FallbackDeterminism ==
  \A i, j \in 1..Len(generated) :
    ~generated[i].magic =>
      /\ \A c \in 1..Len(calls) : calls[c].req # generated[i].req
      /\ (~generated[j].magic /\ generated[j].seed = generated[i].seed) =>
           /\ generated[j].name = generated[i].name
           /\ generated[j].height = generated[i].height

\* C9, its case: a credential is configured, and two trees have been
\* generated from the same seed while preferences.magic was false
C9_TwoDisabledCalls ==
  /\ apiKey
  /\ \E i, j \in 1..Len(generated) :
       /\ i < j
       /\ ~generated[i].magic /\ ~generated[j].magic
       /\ generated[i].seed = generated[j].seed
       /\ generated[i].seed # EmptyObject

\* the content of the reply is no JSON text
malformed(content) == content.t = "string" /\ JSONparse(content.v) = JError

\* generateTreeViaOpenAI ended in one of the failure cases
failureCase(g) ==
  \/ g.how \in {"credential", "network", "timeout", "status", "body"}
  \/ g.how = "content" /\ malformed(g.content)

\* C10, as the specification states it: in each failure case (missing
\* credential, network error, timeout, non-OK status, malformed content of
\* the reply) generateTreeViaOpenAI returns the fallback derived from the
\* seed.
C10_FailureGivesFallback ==
  \A i \in 1..Len(generated) :
    failureCase(generated[i]) =>
      /\ generated[i].name = fallback(generated[i].seed).name
      /\ generated[i].height = fallback(generated[i].seed).height

\* C10, the input that refutes it: the external model has replied "oops"
\* to the seed {"species":"oak"} and the tree returned is "Unnamed Tree" of
\* height 5, not the fallback "species tree" of height 16
C10_MalformedGivesUnnamed ==
  \E i \in 1..Len(generated) :
    /\ generated[i].how = "content"
    /\ generated[i].content = JStr(s_oops)
    /\ generated[i].seed # EmptyObject
    /\ generated[i].name = s_unnamed
    /\ generated[i].height = JNum(5)
    /\ fallback(generated[i].seed).height = JNum(16)

(***************************************************************************)
(* Batches of the chat loop (specification Spec)                           *)
(***************************************************************************)
\* the command logs of the tree items of rs, in order
treeLogs(rs) ==
  SelectSeq(rs, LAMBDA r : r.url = "command-logs" /\ r.command = "tree")

\* the tree items of a batch logged in rs, in order: a repeat count or a
\* grove, whose logs carry index and total
batchLogs(rs) == SelectSeq(treeLogs(rs), LAMBDA r : r.total > 0)

\* the requests to the tree endpoint in rs, in order
treeRequests(rs) == SelectSeq(rs, LAMBDA r : r.url = "trees")

\* the logs ls are items 1, 2, ... of their batches, in order, every batch
\* going up to its total when complete
countsUp(ls, complete) ==
  \A k \in 1..Len(ls) :
    /\ ls[k].index \in 1..ls[k].total
    /\ ls[k].index > 1 =>
         /\ k > 1
         /\ ls[k - 1].index = ls[k].index - 1
         /\ ls[k - 1].total = ls[k].total
    /\ (complete /\ ls[k].index < ls[k].total) =>
         /\ k < Len(ls)
         /\ ls[k + 1].index = ls[k].index + 1
         /\ ls[k + 1].total = ls[k].total

\* C11: whatever the tree endpoint answers to the items of a batch (the
\* saved tree, an error, or a failed request), every item logged is
\* attempted, the items of a batch are attempted in the order 1, 2, ...,
\* and once the handler is done the attempts of each batch are as many
\* as its total.
C11_BatchFailureIsolation ==
  /\ Len(treeRequests(requests)) = Len(treeLogs(requests))
  /\ \A p \in 1..Len(requests) :
       (requests[p].url = "command-logs" /\ requests[p].command = "tree")
         => (p < Len(requests) /\ requests[p + 1].url = "trees")
  /\ countsUp(batchLogs(requests), pc = "done")

\* C11, its case: the handler is done with a batch of three trees whose
\* first request failed (no message was posted for it) and whose second
\* request was answered with an error; three requests were made
C11_FailedFirstOfThree ==
  /\ pc = "done"
  /\ Len(requests) = 8
  /\ \A k \in 1..3 :
       /\ treeLogs(requests)[k].index = k
       /\ treeLogs(requests)[k].total = 3
  /\ requests[2].url = "trees"
  /\ requests[3].url = "command-logs"
  /\ requests[5].url = "messages" /\ ~requests[5].named
  /\ Len(treeRequests(requests)) = 3

(***************************************************************************)
(* The order of arrival (specification SpecDelivery)                       *)
(***************************************************************************)
\* the requests to the endpoint url in the order the server handled them
stored(url) ==
  SelectSeq([k \in 1..Len(arrived) |-> requests[arrived[k]]],
            LAMBDA r : r.url = url)

\* the server handled the requests to url in the order they were sent
sameOrder(url) ==
  \A j, k \in 1..Len(arrived) :
    (j < k /\ requests[arrived[j]].url = url /\ requests[arrived[k]].url = url)
      => arrived[j] < arrived[k]

\* the messages about the items of kind stored for a batch, in the order
\* the server stored them
notifications(kind) ==
  SelectSeq(stored("messages"), LAMBDA r : r.about = kind /\ r.total > 0)

\* the handler is done and the server has handled all it has sent
settled == pc = "done" /\ handled = toInspector

s_make_2_deku_nuts == <<"m", "a", "k", "e", " ", "2", " ", "d", "e", "k", "u", " ", "n", "u", "t", "s">>

\* C12, as the specification states it: the messages and the command logs
\* of a batch reach the store (and so the observers, who are notified at
\* each insertion) in the order the handler sent them, and the messages
\* [i/total] of the trees and of the deku nuts are stored as 1, 2, ...,
\* total with no index missing once everything has arrived.
C12_OrderedGapFree ==
  /\ sameOrder("messages")
  /\ sameOrder("command-logs")
  /\ countsUp(notifications("tree"), settled)
  /\ countsUp(notifications("deku"), settled)

\* C12, the input that refutes it: "make 2 deku nuts" is typed and the
\* store holds the message [2/2] while the message [1/2] is still on its way
C12_SecondBeforeFirst ==
  /\ input = s_make_2_deku_nuts
  /\ Len(notifications("deku")) = 1
  /\ notifications("deku")[1].index = 2
  /\ notifications("deku")[1].total = 2

(***************************************************************************)
(* Properties of the feed (specifications SpecFeed and SpecObservers)      *)
(***************************************************************************)
\* the places of the journal where a row was persisted
persisted ==
  {i \in 1..Len(journal) : journal[i].op = "insert" /\ journal[i].ok}

\* the places of the journal where a statement threw
refused ==
  {i \in 1..Len(journal) : journal[i].op = "insert" /\ ~journal[i].ok}

\* the places of the journal where an event was broadcast
broadcasts == {i \in 1..Len(journal) : journal[i].op = "broadcast"}

\* the event kind of the rows of a table
eventOf(table) ==
  IF table = "messages" THEN "messages:created" ELSE "command_logs:created"

\* the responses sent to the request numbered n
responsesTo(n) == {i \in 1..Len(responses) : responses[i].req = n}

\* C13, as the specification states it: once no handler is waiting for the
\* agent endpoint, every row persisted into messages or command_logs by the
\* create endpoints and the chat endpoint has been followed by a broadcast
\* of the event kind of its table.
C13_BroadcastOnCreation ==
  awaiting = {} =>
    \A i \in persisted :
      \E j \in broadcasts :
        j > i /\ journal[j].type = eventOf(journal[i].table)

\* C13, the input that refutes it: POST /api/chat has been answered with
\* success, its chat_receive row is persisted, and no command_logs:created
\* event has ever been broadcast
C13_ChatReceiveSilent ==
  /\ awaiting = {}
  /\ \E i \in persisted :
       /\ journal[i].table = "command_logs"
       /\ journal[i].row.command = "chat_receive"
       /\ \E k \in responsesTo(journal[i].by.n) : responses[k].status = 200
  /\ \A j \in broadcasts : journal[j].type # "command_logs:created"

\* the handles of the sequence hs
handlesOf(hs) == {hs[i] : i \in 1..Len(hs)}

\* C14: whenever broadcast writes an event, every handle of the set is
\* written the event or its write throws, the handles written are all the
\* handles but the failing ones, in the order of the set, and the request
\* that triggered the broadcast is answered with success; and no step that
\* stores or broadcasts anything changes the set of handles.
C14_BroadcasterIsolation ==
  /\ [](\A i \in broadcasts :
          /\ handlesOf(journal[i].written) \cup journal[i].failed
               = handlesOf(journal[i].clients)
          /\ journal[i].written
               = SelectSeq(journal[i].clients,
                           LAMBDA h : h \notin journal[i].failed)
          /\ \A k \in responsesTo(journal[i].by.n) : responses[k].status = 200
          /\ responsesTo(journal[i].by.n) # {})
  /\ [][journal' # journal => sseClients' = sseClients]_vars

\* C14, its case: an event was broadcast to two observers, the write to
\* the first one threw, the second one was written, and the first one is
\* still in the set
C14_FirstOfTwoFails ==
  \E i \in broadcasts :
    /\ journal[i].clients = <<1, 2>>
    /\ journal[i].failed = {1}
    /\ journal[i].written = <<2>>
    /\ sseClients = <<1, 2>>
    /\ \E k \in responsesTo(journal[i].by.n) : responses[k].status = 200

\* C19, as the specification states it: a request during which a statement
\* of the store threw is never answered with success.
C19_PersistenceErrorsSurfaced ==
  \A i \in refused :
    \A k \in responsesTo(journal[i].by.n) : responses[k].status # 200

\* C19, the input that refutes it: the statement of POST /api/command-logs
\* threw and the request was answered with success
C19_LogFailureAnswered ==
  \E i \in refused :
    /\ journal[i].table = "command_logs"
    /\ \E k \in responsesTo(journal[i].by.n) :
         /\ responses[k].url = "command-logs"
         /\ responses[k].status = 200

(***************************************************************************)
(* Properties of the stimulus loop (specification SpecNudge)               *)
(***************************************************************************)
\* the places of the journal where a tick picked its line
pickPlaces == {i \in 1..Len(journal) : journal[i].op = "pick"}

\* the lines of the library
libraryLines == {WORLD_TREE_LIBRARY[i] : i \in 1..LibraryLength}

\* the lines picked so far, in order
picks ==
  [k \in 1..Len(SelectSeq(journal, LAMBDA e : e.op = "pick")) |->
     SelectSeq(journal, LAMBDA e : e.op = "pick")[k].item]

\* any LibraryLength consecutive lines of ps are the lines of the library,
\* and the line LibraryLength places after another is the same line
cyclic(ps) ==
  /\ \A k \in 1..Len(ps) :
       k + LibraryLength - 1 <= Len(ps) =>
         {ps[j] : j \in k..(k + LibraryLength - 1)} = libraryLines
  /\ \A k \in 1..Len(ps) :
       k + LibraryLength <= Len(ps) => ps[k + LibraryLength] = ps[k]

\* C15: of the lines picked by the ticks, any LibraryLength consecutive ones
\* are the lines of the library, each once, and the pick that comes
\* LibraryLength picks after another is the same line: every block repeats
\* the order of the first, whether or not earlier ticks still await the
\* agent endpoint.
C15_StimulusCycle ==
  /\ cyclic(picks)
  /\ Cardinality(libraryLines) = LibraryLength

\* C15, its case: two blocks have been picked while the first tick still
\* awaits the agent endpoint
C15_TwoBlocksOverlapping ==
  /\ Len(picks) = 2 * LibraryLength
  /\ \E a \in awaiting : a.by = Tick(1)

\* the places of the journal where the tick t persisted the command log
\* named command
logsOf(t, commands) ==
  {i \in persisted : /\ journal[i].by = t
                     /\ journal[i].table = "command_logs"
                     /\ journal[i].row.command \in commands}

\* the places of the journal where the tick t called the agent endpoint
callsOf(t) ==
  {i \in 1..Len(journal) : journal[i].op = "fetch" /\ journal[i].by = t}

\* the tick t has run to its end
finished(t) == \A a \in awaiting : a.by # t

\* the ticks started so far
ticks == {Tick(n) : n \in 1..nudgeCount}

\* C16, as the specification states it: a tick that has persisted nudge_send
\* has done so before its call of the agent endpoint, and once the tick has
\* run to its end it has persisted exactly one of nudge_reply and
\* nudge_error.
C16_NudgeRoundTrip ==
  \A t \in ticks :
    \A i \in logsOf(t, {"nudge_send"}) :
      /\ \A j \in callsOf(t) : i < j
      /\ finished(t) =>
           Cardinality(logsOf(t, {"nudge_reply", "nudge_error"})) = 1

\* C16, the input that refutes it: the agent endpoint has answered a tick
\* with an object that is no array; the tick has run to its end, no
\* statement has thrown, and the tick has no nudge_reply and no nudge_error
C16_ObjectAnswerNoTerminal ==
  \E t \in ticks :
    /\ logsOf(t, {"nudge_send"}) # {}
    /\ callsOf(t) # {}
    /\ finished(t)
    /\ refused = {}
    /\ logsOf(t, {"nudge_reply", "nudge_error"}) = {}

\* the text ends with the embellishing suffix
embellished(text) ==
  /\ Len(text) >= Len(s_enhance)
  /\ SubSeq(text, Len(text) - Len(s_enhance) + 1, Len(text)) = s_enhance

\* the line is of the group worldbuilding or has the shape of a command, or
\* the exotic draw succeeded
forwardDecision(item, exotic) ==
  item.type = "worldbuilding" \/ LitAt(item.text, 1, s_COMMAND) \/ exotic

\* the places of the journal where the handler t left an entry
entriesOf(t) == {j \in 1..Len(journal) : journal[j].by = t}

\* the places among mine of the persisted user messages
userMessages(mine) ==
  {j \in mine : /\ journal[j].op = "insert" /\ journal[j].ok
                /\ journal[j].table = "messages"
                /\ journal[j].row.role = "user"}

\* the places among mine of the persisted command logs named in commands
logsAmong(mine, commands) ==
  {j \in mine : /\ journal[j].op = "insert" /\ journal[j].ok
                /\ journal[j].table = "command_logs"
                /\ journal[j].row.command \in commands}

\* the places among mine of the calls of the agent endpoint
callsAmong(mine) == {j \in mine : journal[j].op = "fetch"}

\* a statement among mine threw before the call of the agent endpoint
refusedAmong(mine) ==
  \E j \in mine :
    /\ journal[j].op = "insert" /\ ~journal[j].ok
    /\ \/ journal[j].table = "messages" /\ journal[j].row.role = "user"
       \/ /\ journal[j].table = "command_logs"
          /\ journal[j].row.command \in {"nudge_skip", "nudge_send"}

\* what C17 says of the tick that picked its line at place i of the
\* journal and left its entries at the places mine
decided(i, mine, item, exotic) ==
  /\ userMessages(mine) = {i + 1}
  /\ journal[i + 1].row.meta.source = "scheduler"
  /\ journal[i + 1].row.meta.type = item.type
  /\ journal[i + 1].row.meta.sent = forwardDecision(item, exotic)
  /\ embellished(journal[i + 1].row.text) = exotic
  /\ Cardinality(logsAmong(mine, {"nudge_skip", "nudge_send"})) = 1
  /\ \A j \in logsAmong(mine, {"nudge_skip", "nudge_send"}) : j > i + 1
  /\ (logsAmong(mine, {"nudge_send"}) # {}) = forwardDecision(item, exotic)
  /\ (callsAmong(mine) # {}) = forwardDecision(item, exotic)
  /\ Cardinality(callsAmong(mine)) <= 1

\* what C17 says of the tick that picked its line at place i
decidedAt(i, mine) ==
  ~refusedAmong(mine) => decided(i, mine, journal[i].item, journal[i].exotic)

\* C17: every tick whose statements the store executes first persists one
\* user message tagged scheduler with the group of the line and the sent
\* flag, then exactly one of nudge_skip and nudge_send; the agent endpoint
\* is called, and the flag is set, exactly when the line is a worldbuilding
\* or command-shaped line or the exotic draw succeeded; the text carries
\* the suffix exactly in the exotic case.
C17_TickDecision ==
  \A i \in pickPlaces : decidedAt(i, entriesOf(journal[i].by))

\* C17, its case: a tick has picked a line that is no command, the exotic
\* draw succeeded, and the embellished line was sent to the agent endpoint
C17_ExoticWisdomSent ==
  \E i \in pickPlaces :
    /\ journal[i].item.type = "wisdom"
    /\ journal[i].exotic
    /\ callsOf(journal[i].by) # {}
    /\ \A j \in callsOf(journal[i].by) : embellished(journal[j].text)

\* the line picked by the tick t
lineOf(t) == journal[CHOOSE i \in pickPlaces : journal[i].by = t].item

\* the text is an explicit tree command
treeCommand(text) ==
  /\ findExplicitCommands(text) # <<>>
  /\ findExplicitCommands(text)[1].kind = "tree"

\* the places of the journal where a tree action shows: a command log tree
\* or a row of the table trees
treeActions ==
  {i \in 1..Len(journal) :
     /\ journal[i].op = "insert"
     /\ \/ journal[i].table = "trees"
        \/ journal[i].table = "command_logs" /\ journal[i].row.command = "tree"}

\* C18, as the specification states it: once a tick that forwarded an
\* explicit COMMAND: TREE line has had its reply and has run to its end, a
\* tree action has been executed: a tree command log or a tree creation.
C18_SchedulerPipeline ==
  \A t \in ticks :
    (/\ logsOf(t, {"nudge_reply"}) # {}
     /\ finished(t)
     /\ treeCommand(lineOf(t).text))
      => treeActions # {}

\* C18, the input that refutes it: the tick of the line COMMAND:
\* TREE.CALL_BIRDS has had its reply, and all ticks have run to their end
\* without any tree action
C18_TreeLineNoTree ==
  /\ nudgeCount = MaxTicks
  /\ awaiting = {}
  /\ \E t \in ticks :
       /\ logsOf(t, {"nudge_reply"}) # {}
       /\ lineOf(t) = Lines[1]
       /\ treeCommand(lineOf(t).text)
  /\ treeActions = {}

(***************************************************************************)
(* Texts that are not JSON (specification SpecServer)                      *)
(***************************************************************************)
s_command_tree_oops == <<"C", "O", "M", "M", "A", "N", "D", ":", " ", "T", "R", "E", "E", " ", "{", "o", "o", "p", "s", "}">>

s_command_tree_empty == <<"C", "O", "M", "M", "A", "N", "D", ":", " ", "T", "R", "E", "E", " ", "{", "}">>

\* the explicit command with a payload that is not JSON is planned as the
\* command with the payload {}
absorbedInCommand ==
  /\ findExplicitCommands(s_command_tree_oops) # <<>>
  /\ findExplicitCommands(s_command_tree_oops)[1].payload = Undefined
  /\ UserPlan(s_command_tree_oops) = UserPlan(s_command_tree_empty)

\* the places in responses of the answers to a body that is not JSON
malformedAnswers ==
  {i \in 1..Len(responses) : parseBody(responses[i].request) = JError}

\* C20, as the specification states it: a payload that is not JSON, after
\* an explicit command or as the body of a request to the create and
\* preferences endpoints, is taken as {}: the request is answered with
\* status 200 and no error is reported to the caller.
C20_ParseErrorsAbsorbed ==
  /\ absorbedInCommand
  /\ \A i \in malformedAnswers :
       /\ responses[i].status = 200
       /\ responses[i].body # "SyntaxError"

\* C20, the input that refutes it: the body { sent to POST /api/prefs is
\* answered with status 400 and the error of JSON.parse
C20_MalformedPrefsRefused ==
  \E i \in malformedAnswers :
    /\ responses[i].url = "prefs"
    /\ responses[i].request = <<"{">>
    /\ responses[i].status = 400
    /\ responses[i].body = "SyntaxError"

(***************************************************************************)
(* The forward of the chat endpoint (specification SpecFeed)               *)
(***************************************************************************)
\* the places in responses of the answers to the calls of POST /api/chat
\* whose call of the agent endpoint failed
forwardFailures ==
  {k \in 1..Len(responses) :
     responses[k].url = "chat" /\ responses[k].body = "fetch"}

\* the places of the journal where the request numbered n ran the statement
\* of chat_forward_error, executed by the store or not
errorLogs(n) ==
  {i \in 1..Len(journal) :
     /\ journal[i].op = "insert" /\ journal[i].by = Request(n)
     /\ journal[i].table = "command_logs"
     /\ journal[i].row.command = "chat_forward_error"}

\* the places of the journal where the request numbered n persisted the
\* message of the user
userMessagesOf(n) ==
  {i \in persisted :
     /\ journal[i].by = Request(n)
     /\ journal[i].table = "messages" /\ journal[i].row.role = "user"}

afterForward ==
  {i \in 1..Len(requests) :
     \E j \in 1..(i - 1) : requests[j].url = "agent"}

\* C22, as the specification states it: when the agent endpoint answers a
\* forwarded text with a value that is no array, the chat loop handles no
\* message: it issues no request after the forward, neither an agent
\* message nor a command log, a tree or a deku nut.
C22_NonArrayZeroMessages ==
  (pc = "done" /\ agentData # Rejected /\ agentData.t # "array")
    => afterForward = {}

\* C22, the input that refutes it: the agent endpoint has answered with the
\* string hi, and the handler has posted one agent message with an empty
\* text for each of its two characters
C22_StringReplyPerCharacter ==
  /\ pc = "done"
  /\ agentData = JStr(s_hi)
  /\ Cardinality(afterForward) = 2
  /\ \A i \in afterForward :
       /\ requests[i].url = "messages"
       /\ requests[i].role = "agent"
       /\ requests[i].text = <<>>

(***************************************************************************)
(* Calls of the agent endpoint that never settle (specification            *)
(* SpecForward).  The calls of fetch carry no signal and no timer is set:  *)
(* a call the endpoint never answers stays pending.                        *)
(***************************************************************************)
\* await fetch(...) / await resp.json() of POST /api/chat: the endpoint
\* accepts the call and never answers it, so the promise never settles
NeverSettles ==
  /\ \E a \in {x \in awaiting : x.by.kind = "request"} :
       /\ awaiting' = awaiting \ {a}
       /\ journal' = Append(journal, [op |-> "pending", by |-> a.by])
  /\ UNCHANGED <<sseClients, broken>>
  /\ UNCHANGED <<chatVars, groveVars, serverVars, netVars, nudgeVars, schedulerVars,
                 observerVars>>

NextForward == PostChat \/ AgentAnswersChat \/ NeverSettles

\* the chat endpoint forwarding up to MaxRequests texts; the continuation
\* of a handler runs once the endpoint has answered its call
SpecForward ==
  InitFeed /\ [][NextForward]_vars /\ WF_vars(AgentAnswersChat)

\* the places of the journal where the call of a handler was left pending
pendingCalls == {i \in 1..Len(journal) : journal[i].op = "pending"}

\* C23, as the specification states it: every call of POST /api/chat that
\* has called the agent endpoint is eventually answered, with the reply or
\* with an error, and the agent endpoint is called at most twice for it.
C23_BoundedForwarding ==
  /\ \A n \in 1..MaxRequests :
       (callsOf(Request(n)) # {}) ~> (responsesTo(n) # {})
  /\ [](\A n \in 1..MaxRequests : Cardinality(callsOf(Request(n))) <= 2)

\* C23, the input that refutes it: the agent endpoint never answers the
\* call of the first request; no handler awaits anything, no further
\* request can come, and the first request has no response
C23_CallLeftPending ==
  /\ \E i \in pendingCalls : journal[i].by = Request(1)
  /\ callsOf(Request(1)) # {}
  /\ responsesTo(1) = {}
  /\ awaiting = {}
  /\ served = MaxRequests

(***************************************************************************)
(* The local command deku (specification SpecLocal)                        *)
(***************************************************************************)
\* the largest argument of the lines deku <number>
MaxBase == 40

s_2_5 == <<"2", ".", "5">>

\* the lines typed: deku, deku <number>, other lines that make a deku nut,
\* the local command tree, and a line that is forwarded
LocalLines ==
  {s_deku, <<"D", "E", "K", "U", " ", "7">>, <<"m", "a", "k", "e", " ", "a", " ", "d", "e", "k", "u">>, <<"m", "a", "k", "e", " ", "2", " ", "d", "e", "k", "u", " ", "n", "u", "t", "s">>, s_tree, s_hi}
  \cup {s_deku \o <<" ">> \o natToString(n) : n \in 0..MaxBase}
  \cup {s_deku \o <<" ">> \o s_2_5, <<" ", " ", "D", "e", "k", "u", " ", " ">> \o s_2_5}

\* one of the lines of LocalLines is typed
InitLocal ==
  /\ input \in LocalLines
  /\ agentData \in {Rejected, JArr(<<Message(<<"d", "e", "k", "u", " ", "5">>)>>)}
  /\ pc = "question"
  /\ todo = <<>>
  /\ pending = <<>>
  /\ requests = <<>>
  /\ nextId = 1
  /\ arrived = <<>>
  /\ GroveIdle
  /\ ServerStarted /\ apiKey = FALSE
  /\ FeedIdle
  /\ PageClosed
  /\ NoObserver

\* the chat loop serving one line of LocalLines
SpecLocal == InitLocal /\ [][Next]_vars

\* the places in requests of the deku nuts posted
nutRequests == {i \in 1..Len(requests) : requests[i].url = "deku-nuts"}

\* the line is the local command deku <number>
suppliesBase(inp) == dekuMatch(inp) # {} /\ dekuMatch(inp) # {0}

\* the base the line asks for: its number, or 1 when it has none
askedBase(inp) ==
  IF suppliesBase(inp)
    THEN LocalBase(trim(inp), dekuMatch(inp))
    ELSE JNum(1)

\* C24, as the specification states it: every deku nut made for a line
\* typed at the prompt has the number of the line deku <number> as its
\* base, and base 1 when the line has no such number; the line deku
\* <number> makes a deku nut.
C24_DekuBaseArgument ==
  pc = "done" =>
    /\ \A i \in nutRequests :
         requests[i].from # "agent-intent" =>
           requests[i].base = askedBase(input)
    /\ suppliesBase(input) => nutRequests # {}

\* C24, the input that refutes it: the line deku 5 has made one deku nut,
\* of base 1, as a natural-language intent
C24_DekuFiveHasBaseOne ==
  /\ pc = "done"
  /\ input = <<"d", "e", "k", "u", " ", "5">>
  /\ Cardinality(nutRequests) = 1
  /\ \A i \in nutRequests :
       requests[i].base = JNum(1) /\ requests[i].from = "user-nl"

(***************************************************************************)
(* The preferences (specification SpecServer)                              *)
(***************************************************************************)
\* C25, as the specification states it: magic is a boolean, theme is dark
\* or light, and textSize is an integer from 12 to 22.
C25_PreferencesInvariant ==
  /\ preferences.magic \in BOOLEAN
  /\ preferences.theme \in {s_dark, s_light}
  /\ preferences.textSize.t = "number"
  /\ preferences.textSize.v \in 12..22

\* C25, the input that refutes it: POST /api/prefs with {"textSize":15.5}
\* has been answered with success and textSize is 15.5
C25_FractionalTextSize ==
  /\ preferences.textSize = JDec(<<"1", "5", ".", "5">>)
  /\ \E k \in 1..Len(responses) :
       /\ responses[k].url = "prefs"
       /\ responses[k].status = 200
       /\ parseBody(responses[k].request) # JError
       /\ Prop(parseBody(responses[k].request), k_textSize)
            = JDec(<<"1", "5", ".", "5">>)

(***************************************************************************)
(* The repeat count (specification SpecCount)                              *)
(***************************************************************************)
\* lines with the number n their quantity phrase names (1 when they have
\* none), each a tree intent or a deku intent
CountLines ==
  { [kind |-> "tree", n |-> 0,
     text |-> <<"m", "a", "k", "e", " ", "a", " ", "t", "r", "e", "e", " ", "m", "a", "k", "e", " ", "0", " ", "t", "r", "e", "e", "s">>],
    [kind |-> "tree", n |-> 1,
     text |-> <<"m", "a", "k", "e", " ", "a", " ", "t", "r", "e", "e", " ", "m", "a", "k", "e", " ", "1", " ", "t", "r", "e", "e", "s">>],
    [kind |-> "tree", n |-> 2,
     text |-> <<"m", "a", "k", "e", " ", "a", " ", "t", "r", "e", "e", " ", "m", "a", "k", "e", " ", "2", " ", "t", "r", "e", "e", "s">>],
    [kind |-> "tree", n |-> 7,
     text |-> <<"m", "a", "k", "e", " ", "a", " ", "t", "r", "e", "e", " ", "m", "a", "k", "e", " ", "0", "0", "7", " ", "t", "r", "e", "e", "s">>],
    [kind |-> "tree", n |-> 99,
     text |-> <<"m", "a", "k", "e", " ", "a", " ", "t", "r", "e", "e", " ", "m", "a", "k", "e", " ", "9", "9", " ", "t", "r", "e", "e", "s">>],
    [kind |-> "tree", n |-> 100,
     text |-> <<"m", "a", "k", "e", " ", "a", " ", "t", "r", "e", "e", " ", "m", "a", "k", "e", " ", "1", "0", "0", " ", "t", "r", "e", "e", "s">>],
    [kind |-> "tree", n |-> 101,
     text |-> <<"m", "a", "k", "e", " ", "a", " ", "t", "r", "e", "e", " ", "m", "a", "k", "e", " ", "1", "0", "1", " ", "t", "r", "e", "e", "s">>],
    [kind |-> "tree", n |-> 999,
     text |-> <<"m", "a", "k", "e", " ", "a", " ", "t", "r", "e", "e", " ", "m", "a", "k", "e", " ", "9", "9", "9", " ", "t", "r", "e", "e", "s">>],
    [kind |-> "tree", n |-> 0,
     text |-> <<"m", "a", "k", "e", " ", "a", " ", "t", "r", "e", "e", " ", "m", "a", "k", "e", " ", "0", " ", "s", "a", "p", "l", "i", "n", "g", "s">>],
    [kind |-> "tree", n |-> 1,
     text |-> <<"m", "a", "k", "e", " ", "a", " ", "t", "r", "e", "e", " ", "m", "a", "k", "e", " ", "1", " ", "s", "a", "p", "l", "i", "n", "g", "s">>],
    [kind |-> "tree", n |-> 2,
     text |-> <<"m", "a", "k", "e", " ", "a", " ", "t", "r", "e", "e", " ", "m", "a", "k", "e", " ", "2", " ", "s", "a", "p", "l", "i", "n", "g", "s">>],
    [kind |-> "tree", n |-> 7,
     text |-> <<"m", "a", "k", "e", " ", "a", " ", "t", "r", "e", "e", " ", "m", "a", "k", "e", " ", "0", "0", "7", " ", "s", "a", "p", "l", "i", "n", "g", "s">>],
    [kind |-> "tree", n |-> 99,
     text |-> <<"m", "a", "k", "e", " ", "a", " ", "t", "r", "e", "e", " ", "m", "a", "k", "e", " ", "9", "9", " ", "s", "a", "p", "l", "i", "n", "g", "s">>],
    [kind |-> "tree", n |-> 100,
     text |-> <<"m", "a", "k", "e", " ", "a", " ", "t", "r", "e", "e", " ", "m", "a", "k", "e", " ", "1", "0", "0", " ", "s", "a", "p", "l", "i", "n", "g", "s">>],
    [kind |-> "tree", n |-> 101,
     text |-> <<"m", "a", "k", "e", " ", "a", " ", "t", "r", "e", "e", " ", "m", "a", "k", "e", " ", "1", "0", "1", " ", "s", "a", "p", "l", "i", "n", "g", "s">>],
    [kind |-> "tree", n |-> 999,
     text |-> <<"m", "a", "k", "e", " ", "a", " ", "t", "r", "e", "e", " ", "m", "a", "k", "e", " ", "9", "9", "9", " ", "s", "a", "p", "l", "i", "n", "g", "s">>],
    [kind |-> "tree", n |-> 0,
     text |-> <<"m", "a", "k", "e", " ", "a", " ", "t", "r", "e", "e", " ", "G", "R", "O", "W", " ", "0", " ", "t", "r", "e", "e", "s">>],
    [kind |-> "tree", n |-> 1,
     text |-> <<"m", "a", "k", "e", " ", "a", " ", "t", "r", "e", "e", " ", "G", "R", "O", "W", " ", "1", " ", "t", "r", "e", "e", "s">>],
    [kind |-> "tree", n |-> 2,
     text |-> <<"m", "a", "k", "e", " ", "a", " ", "t", "r", "e", "e", " ", "G", "R", "O", "W", " ", "2", " ", "t", "r", "e", "e", "s">>],
    [kind |-> "tree", n |-> 7,
     text |-> <<"m", "a", "k", "e", " ", "a", " ", "t", "r", "e", "e", " ", "G", "R", "O", "W", " ", "0", "0", "7", " ", "t", "r", "e", "e", "s">>],
    [kind |-> "tree", n |-> 99,
     text |-> <<"m", "a", "k", "e", " ", "a", " ", "t", "r", "e", "e", " ", "G", "R", "O", "W", " ", "9", "9", " ", "t", "r", "e", "e", "s">>],
    [kind |-> "tree", n |-> 100,
     text |-> <<"m", "a", "k", "e", " ", "a", " ", "t", "r", "e", "e", " ", "G", "R", "O", "W", " ", "1", "0", "0", " ", "t", "r", "e", "e", "s">>],
    [kind |-> "tree", n |-> 101,
     text |-> <<"m", "a", "k", "e", " ", "a", " ", "t", "r", "e", "e", " ", "G", "R", "O", "W", " ", "1", "0", "1", " ", "t", "r", "e", "e", "s">>],
    [kind |-> "tree", n |-> 999,
     text |-> <<"m", "a", "k", "e", " ", "a", " ", "t", "r", "e", "e", " ", "G", "R", "O", "W", " ", "9", "9", "9", " ", "t", "r", "e", "e", "s">>],
    [kind |-> "tree", n |-> 0,
     text |-> <<"m", "a", "k", "e", " ", "a", " ", "t", "r", "e", "e", " ", "G", "R", "O", "W", " ", "0", " ", "s", "a", "p", "l", "i", "n", "g", "s">>],
    [kind |-> "tree", n |-> 1,
     text |-> <<"m", "a", "k", "e", " ", "a", " ", "t", "r", "e", "e", " ", "G", "R", "O", "W", " ", "1", " ", "s", "a", "p", "l", "i", "n", "g", "s">>],
    [kind |-> "tree", n |-> 2,
     text |-> <<"m", "a", "k", "e", " ", "a", " ", "t", "r", "e", "e", " ", "G", "R", "O", "W", " ", "2", " ", "s", "a", "p", "l", "i", "n", "g", "s">>],
    [kind |-> "tree", n |-> 7,
     text |-> <<"m", "a", "k", "e", " ", "a", " ", "t", "r", "e", "e", " ", "G", "R", "O", "W", " ", "0", "0", "7", " ", "s", "a", "p", "l", "i", "n", "g", "s">>],
    [kind |-> "tree", n |-> 99,
     text |-> <<"m", "a", "k", "e", " ", "a", " ", "t", "r", "e", "e", " ", "G", "R", "O", "W", " ", "9", "9", " ", "s", "a", "p", "l", "i", "n", "g", "s">>],
    [kind |-> "tree", n |-> 100,
     text |-> <<"m", "a", "k", "e", " ", "a", " ", "t", "r", "e", "e", " ", "G", "R", "O", "W", " ", "1", "0", "0", " ", "s", "a", "p", "l", "i", "n", "g", "s">>],
    [kind |-> "tree", n |-> 101,
     text |-> <<"m", "a", "k", "e", " ", "a", " ", "t", "r", "e", "e", " ", "G", "R", "O", "W", " ", "1", "0", "1", " ", "s", "a", "p", "l", "i", "n", "g", "s">>],
    [kind |-> "tree", n |-> 999,
     text |-> <<"m", "a", "k", "e", " ", "a", " ", "t", "r", "e", "e", " ", "G", "R", "O", "W", " ", "9", "9", "9", " ", "s", "a", "p", "l", "i", "n", "g", "s">>],
    [kind |-> "tree", n |-> 1,
     text |-> <<"m", "a", "k", "e", " ", "a", " ", "t", "r", "e", "e">>],
    [kind |-> "tree", n |-> 1,
     text |-> <<"m", "a", "k", "e", " ", "a", " ", "t", "r", "e", "e", " ", "m", "a", "k", "e", " ", "1", "0", "0", "0", " ", "t", "r", "e", "e", "s">>],
    [kind |-> "tree", n |-> 1,
     text |-> <<"m", "a", "k", "e", " ", "a", " ", "t", "r", "e", "e", " ", "m", "a", "k", "e", " ", "3", " ", "t", "r", "e", "e", "s", "h", "i", "p", "s">>],
    [kind |-> "tree", n |-> 1,
     text |-> <<"p", "l", "a", "n", "t", " ", "a", " ", "s", "a", "p", "l", "i", "n", "g", " ", "m", "a", "k", "e", " ", "t", "h", "r", "e", "e", " ", "t", "r", "e", "e", "s">>],
    [kind |-> "tree", n |-> 3,
     text |-> <<"m", "a", "k", "e", " ", "a", " ", "t", "r", "e", "e", " ", "r", "e", "m", "a", "k", "e", " ", " ", "3", " ", "t", "r", "e", "e", "s", ".">>],
    [kind |-> "tree", n |-> 3,
     text |-> <<"m", "a", "k", "e", " ", "a", " ", "t", "r", "e", "e", " ", "m", "a", "k", "e", " ", "3", " ", "t", "r", "e", "e", "s", " ", "m", "a", "k", "e", " ", "5", " ", "t", "r", "e", "e", "s">>],
    [kind |-> "deku", n |-> 0,
     text |-> <<"m", "a", "k", "e", " ", "0", " ", "d", "e", "k", "u", " ", "n", "u", "t", "s">>],
    [kind |-> "deku", n |-> 1,
     text |-> <<"m", "a", "k", "e", " ", "1", " ", "d", "e", "k", "u", " ", "n", "u", "t", "s">>],
    [kind |-> "deku", n |-> 2,
     text |-> <<"m", "a", "k", "e", " ", "2", " ", "d", "e", "k", "u", " ", "n", "u", "t", "s">>],
    [kind |-> "deku", n |-> 7,
     text |-> <<"m", "a", "k", "e", " ", "0", "0", "7", " ", "d", "e", "k", "u", " ", "n", "u", "t", "s">>],
    [kind |-> "deku", n |-> 99,
     text |-> <<"m", "a", "k", "e", " ", "9", "9", " ", "d", "e", "k", "u", " ", "n", "u", "t", "s">>],
    [kind |-> "deku", n |-> 100,
     text |-> <<"m", "a", "k", "e", " ", "1", "0", "0", " ", "d", "e", "k", "u", " ", "n", "u", "t", "s">>],
    [kind |-> "deku", n |-> 101,
     text |-> <<"m", "a", "k", "e", " ", "1", "0", "1", " ", "d", "e", "k", "u", " ", "n", "u", "t", "s">>],
    [kind |-> "deku", n |-> 999,
     text |-> <<"m", "a", "k", "e", " ", "9", "9", "9", " ", "d", "e", "k", "u", " ", "n", "u", "t", "s">>],
    [kind |-> "deku", n |-> 0,
     text |-> <<"m", "a", "k", "e", " ", "0", " ", "d", "e", "k", "u", " ", "n", "u", "t">>],
    [kind |-> "deku", n |-> 1,
     text |-> <<"m", "a", "k", "e", " ", "1", " ", "d", "e", "k", "u", " ", "n", "u", "t">>],
    [kind |-> "deku", n |-> 2,
     text |-> <<"m", "a", "k", "e", " ", "2", " ", "d", "e", "k", "u", " ", "n", "u", "t">>],
    [kind |-> "deku", n |-> 7,
     text |-> <<"m", "a", "k", "e", " ", "0", "0", "7", " ", "d", "e", "k", "u", " ", "n", "u", "t">>],
    [kind |-> "deku", n |-> 99,
     text |-> <<"m", "a", "k", "e", " ", "9", "9", " ", "d", "e", "k", "u", " ", "n", "u", "t">>],
    [kind |-> "deku", n |-> 100,
     text |-> <<"m", "a", "k", "e", " ", "1", "0", "0", " ", "d", "e", "k", "u", " ", "n", "u", "t">>],
    [kind |-> "deku", n |-> 101,
     text |-> <<"m", "a", "k", "e", " ", "1", "0", "1", " ", "d", "e", "k", "u", " ", "n", "u", "t">>],
    [kind |-> "deku", n |-> 999,
     text |-> <<"m", "a", "k", "e", " ", "9", "9", "9", " ", "d", "e", "k", "u", " ", "n", "u", "t">>],
    [kind |-> "deku", n |-> 0,
     text |-> <<"S", "p", "a", "w", "n", " ", "0", " ", "d", "e", "k", "u", " ", "n", "u", "t", "s">>],
    [kind |-> "deku", n |-> 1,
     text |-> <<"S", "p", "a", "w", "n", " ", "1", " ", "d", "e", "k", "u", " ", "n", "u", "t", "s">>],
    [kind |-> "deku", n |-> 2,
     text |-> <<"S", "p", "a", "w", "n", " ", "2", " ", "d", "e", "k", "u", " ", "n", "u", "t", "s">>],
    [kind |-> "deku", n |-> 7,
     text |-> <<"S", "p", "a", "w", "n", " ", "0", "0", "7", " ", "d", "e", "k", "u", " ", "n", "u", "t", "s">>],
    [kind |-> "deku", n |-> 99,
     text |-> <<"S", "p", "a", "w", "n", " ", "9", "9", " ", "d", "e", "k", "u", " ", "n", "u", "t", "s">>],
    [kind |-> "deku", n |-> 100,
     text |-> <<"S", "p", "a", "w", "n", " ", "1", "0", "0", " ", "d", "e", "k", "u", " ", "n", "u", "t", "s">>],
    [kind |-> "deku", n |-> 101,
     text |-> <<"S", "p", "a", "w", "n", " ", "1", "0", "1", " ", "d", "e", "k", "u", " ", "n", "u", "t", "s">>],
    [kind |-> "deku", n |-> 999,
     text |-> <<"S", "p", "a", "w", "n", " ", "9", "9", "9", " ", "d", "e", "k", "u", " ", "n", "u", "t", "s">>],
    [kind |-> "deku", n |-> 0,
     text |-> <<"S", "p", "a", "w", "n", " ", "0", " ", "d", "e", "k", "u", " ", "n", "u", "t">>],
    [kind |-> "deku", n |-> 1,
     text |-> <<"S", "p", "a", "w", "n", " ", "1", " ", "d", "e", "k", "u", " ", "n", "u", "t">>],
    [kind |-> "deku", n |-> 2,
     text |-> <<"S", "p", "a", "w", "n", " ", "2", " ", "d", "e", "k", "u", " ", "n", "u", "t">>],
    [kind |-> "deku", n |-> 7,
     text |-> <<"S", "p", "a", "w", "n", " ", "0", "0", "7", " ", "d", "e", "k", "u", " ", "n", "u", "t">>],
    [kind |-> "deku", n |-> 99,
     text |-> <<"S", "p", "a", "w", "n", " ", "9", "9", " ", "d", "e", "k", "u", " ", "n", "u", "t">>],
    [kind |-> "deku", n |-> 100,
     text |-> <<"S", "p", "a", "w", "n", " ", "1", "0", "0", " ", "d", "e", "k", "u", " ", "n", "u", "t">>],
    [kind |-> "deku", n |-> 101,
     text |-> <<"S", "p", "a", "w", "n", " ", "1", "0", "1", " ", "d", "e", "k", "u", " ", "n", "u", "t">>],
    [kind |-> "deku", n |-> 999,
     text |-> <<"S", "p", "a", "w", "n", " ", "9", "9", "9", " ", "d", "e", "k", "u", " ", "n", "u", "t">>],
    [kind |-> "deku", n |-> 1,
     text |-> <<"m", "a", "k", "e", " ", "a", " ", "d", "e", "k", "u">>],
    [kind |-> "deku", n |-> 1,
     text |-> <<"m", "a", "k", "e", " ", "1", "0", "0", "0", " ", "d", "e", "k", "u", " ", "n", "u", "t", "s">>],
    [kind |-> "deku", n |-> 1,
     text |-> <<"m", "a", "k", "e", " ", "3", " ", "d", "e", "k", "u", " ", "n", "u", "t", "s", "h", "e", "l", "l", "s">>],
    [kind |-> "deku", n |-> 1,
     text |-> <<"p", "l", "a", "n", "t", " ", "3", " ", "d", "e", "k", "u", " ", "n", "u", "t", "s">>] }

\* one of the lines of CountLines is typed
InitCount ==
  /\ input \in {l.text : l \in CountLines}
  /\ agentData = Rejected
  /\ pc = "question"
  /\ todo = <<>>
  /\ pending = <<>>
  /\ requests = <<>>
  /\ nextId = 1
  /\ arrived = <<>>
  /\ GroveIdle
  /\ ServerStarted /\ apiKey = FALSE
  /\ FeedIdle
  /\ PageClosed
  /\ NoObserver

\* the tree endpoint answers the awaited fetch with the saved tree
TreeCreated == TreeAnswers("created")

NextCount == HandleUserInput \/ TreeCreated

\* the chat loop serving one line of CountLines, every tree being created
SpecCount == InitCount /\ [][NextCount]_vars

\* the line of CountLines that was typed
typed == CHOOSE l \in CountLines : l.text = input

\* the count the line asks for: its number when it lies in 1..MaxRepeat
askedCount(l) == IF l.n >= 1 /\ l.n <= MaxRepeat THEN l.n ELSE 1

\* the number of requests made to the endpoint url
requestsTo(url) ==
  Cardinality({i \in 1..Len(requests) : requests[i].url = url})

\* C26: countTrees and countDeku give an integer from 1 to MaxRepeat, the
\* number of the quantity phrase when it lies in that range and 1 else;
\* the handler makes that many trees for a tree line and that many deku
\* nuts for a deku line.
C26_RepeatCountBound ==
  /\ countTrees(input) \in 1..MaxRepeat
  /\ countDeku(input) \in 1..MaxRepeat
  /\ typed.kind = "tree" => countTrees(input) = askedCount(typed)
  /\ typed.kind = "deku" => countDeku(input) = askedCount(typed)
  /\ pc = "done" =>
       /\ typed.kind = "tree" => requestsTo("trees") = askedCount(typed)
       /\ typed.kind = "deku" => requestsTo("deku-nuts") = askedCount(typed)

\* C26, its case: the line that asks for 100 saplings has made 100 trees
C26_HundredSaplings ==
  /\ pc = "done"
  /\ input = <<"m", "a", "k", "e", " ", "a", " ", "t", "r", "e", "e", " ", "G", "R", "O", "W", " ", "1", "0", "0", " ", "s", "a", "p", "l", "i", "n", "g", "s">>
  /\ typed.n = MaxRepeat
  /\ requestsTo("trees") = MaxRepeat

(***************************************************************************)
(* The type list of a plan (specification SpecGrove)                       *)
(***************************************************************************)
\* the type list of a field given as a list or as a single string; none
\* when the field is missing
typesGiven(v) ==
  IF v.t = "array" THEN v.v
  ELSE IF v.t = "string" THEN <<v>>
  ELSE <<>>

\* the species of the seeds
speciesDrawn == {speciesOfSeeds[i] : i \in 1..Len(seeds)}

\* the elements of the sequence s
elementsOf(s) == {s[i] : i \in 1..Len(s)}

\* C27, as the specification states it: the seeds are drawn from the types
\* of tree_types, or from those of species when tree_types gives none,
\* each given as a list or as a single string, and the default type is
\* drawn only when neither field is given.
C27_GroveTypeList ==
  expanded =>
    /\ typesGiven(field(k_tree_types)) # <<>> =>
         speciesDrawn \subseteq elementsOf(typesGiven(field(k_tree_types)))
    /\ (typesGiven(field(k_tree_types)) = <<>>
        /\ typesGiven(field(k_species)) # <<>>) =>
         speciesDrawn \subseteq elementsOf(typesGiven(field(k_species)))
    /\ JStr(s_mystic) \in speciesDrawn =>
         (field(k_tree_types) = Undefined /\ field(k_species) = Undefined)

\* C27, the input that refutes it: {tree_types: "oak", count: 2} has been
\* expanded to two seeds of the default type
C27_SingleStringIgnored ==
  /\ expanded
  /\ field(k_tree_types) = JStr(TypeNames[1])
  /\ field(k_species) = Undefined
  /\ field(k_count) = JNum(2)
  /\ field(k_per_type) = Undefined
  /\ speciesOfSeeds = <<JStr(s_mystic), JStr(s_mystic)>>

(***************************************************************************)
(* The chat loop from line to line (specification SpecLoop).  requests     *)
(* holds the requests issued for the line being served.                    *)
(***************************************************************************)
\* the lines typed: one phrase, the line hi, which is forwarded, and exit
LoopLines == Phrases \cup {s_hi, s_exit}

\* what the agent endpoint answers to the line hi: the call fails, no
\* array, or an array of one message, which may be null
LoopReplies ==
  {Rejected, EmptyObject, JStr(s_hi), JArr(<<JNull>>)}
  \cup {JArr(<<Message(t)>>) : t \in Phrases}

\* a line is typed and the agent endpoint is given its answer to it
Typed(line, data) ==
  \/ line \in Phrases /\ data \in BasicReplies
  \/ line = s_hi /\ data \in LoopReplies
  \/ line = s_exit /\ data = Rejected

InitLoop ==
  /\ \E line \in LoopLines, data \in LoopReplies \cup BasicReplies :
       Typed(line, data) /\ input = line /\ agentData = data
  /\ pc = "question"
  /\ todo = <<>>
  /\ pending = <<>>
  /\ requests = <<>>
  /\ nextId = 1
  /\ arrived = <<>>
  /\ GroveIdle
  /\ ServerStarted /\ apiKey = FALSE
  /\ FeedIdle
  /\ PageClosed
  /\ NoObserver

\* if (input.toLowerCase() !== "exit") chat(): handleUserInput has
\* returned, the prompt is shown and the next line is typed
Prompt ==
  /\ pc = "done"
  /\ \E line \in LoopLines, data \in LoopReplies \cup BasicReplies :
       Typed(line, data) /\ input' = line /\ agentData' = data
  /\ pc' = "question"
  /\ todo' = <<>>
  /\ pending' = <<>>
  /\ requests' = <<>>
  /\ nextId' = 1
  /\ UNCHANGED <<groveVars, serverVars, netVars, feedVars, nudgeVars, schedulerVars,
                 observerVars>>

NextLoop == HandleUserInput \/ TreeResponse \/ AgentResponse \/ Prompt

\* the chat loop serving line after line
SpecLoop == InitLoop /\ [][NextLoop]_vars

\* C28: handleUserInput never leaves its control points (reading the
\* line, awaiting the tree endpoint, awaiting the agent endpoint, returned):
\* no answer of a collaborator takes it elsewhere; the loop ends only for
\* the line exit; and once the handler has returned the next step is the
\* prompt for the next line.
C28_NothingFatal ==
  /\ [](pc \in {"question", "awaitTree", "awaitAgent", "done", "exited"})
  /\ [](pc = "exited" => toLowerCase(input) = s_exit)
  /\ [][pc = "done" => pc' = "question"]_vars
  /\ [][pc' = "exited" => pc = "question"]_vars

\* C28, its case: the agent endpoint has answered with an array whose
\* message is null, reading its text has thrown, and the handler has
\* returned after the two requests of the forward
C28_NullMessageAbsorbed ==
  /\ pc = "done"
  /\ input = s_hi
  /\ agentData = JArr(<<JNull>>)
  /\ Len(requests) = 2

(***************************************************************************)
(* Creation requests in flight (specification SpecDelivery)                *)
(***************************************************************************)
\* the places in requests of the creation requests of deku nuts the server
\* has not handled yet
nutsInFlight ==
  {p \in 1..Len(requests) : requests[p].url = "deku-nuts" /\ p \notin handled}

\* the places in requests of the creation request of a tree the handler
\* awaits
treesInFlight ==
  {p \in 1..Len(requests) :
     /\ requests[p].url = "trees"
     /\ pc = "awaitTree"
     /\ \A q \in (p + 1)..Len(requests) : requests[q].url # "trees"}

\* C29, as the specification states it: of the creation requests issued
\* for one line, at most one is in flight at any time.
C29_NoOverlapInBatch == Cardinality(nutsInFlight \cup treesInFlight) <= 1

\* C29, the input that refutes it: "make 2 deku nuts" is typed, the handler
\* has returned, and the creation requests of both deku nuts are in flight
C29_TwoNutsInFlight ==
  /\ input = s_make_2_deku_nuts
  /\ pc = "done"
  /\ Cardinality(nutsInFlight) = 2
  /\ \A p \in nutsInFlight : requests[p].total = 2

(***************************************************************************)
(* The task loop of the inspector page (specification SpecScheduler)       *)
(***************************************************************************)
\* the period of the setInterval of the task loop, in milliseconds
TickMs == 500

\* the intervals of the registered tasks, in milliseconds
PulseMs == 3000
GrowthMs == 6000
WeatherMs == 3000

\* the task loop is followed until its clock has passed MaxNow
MaxNow == 7000

\* by how many milliseconds a callback of setInterval comes late
Lateness == {0, 200, 3000}

\* the tasks addTask has registered when the page is loaded at time at
RegisteredTasks(at) ==
  << [id |-> "pulse", intervalMs |-> PulseMs, next |-> at + PulseMs],
     [id |-> "growth", intervalMs |-> GrowthMs, next |-> at + GrowthMs],
     [id |-> "weather", intervalMs |-> WeatherMs, next |-> at + WeatherMs] >>

\* the task t after the body of the loop at time at, its run having thrown
\* or not: the assignment follows the try statement
rescheduledInsideTry(t, at, threw) ==
  IF threw THEN t ELSE [t EXCEPT !.next = at + t.intervalMs]

rescheduled(t, at, threw) == [t EXCEPT !.next = at + t.intervalMs]

\* the places in tasks of the tasks due at time at
dueAt(at) == {i \in 1..Len(tasks) : at >= tasks[i].next}

\* the runs of one tick at time at, in the order of the loop; throws tells
\* of each task whether its body throws
RECURSIVE runsFrom(_, _, _)
runsFrom(i, at, throws) ==
  IF i > Len(tasks) THEN <<>>
  ELSE (IF i \in dueAt(at)
          THEN <<[id |-> tasks[i].id, at |-> at, threw |-> throws[i]]>>
          ELSE <<>>)
       \o runsFrom(i + 1, at, throws)

\* the callback of setInterval: every task that is due runs, and is
\* rescheduled whether its body throws or not
SchedulerTick ==
  /\ tasks # <<>>
  /\ now <= MaxNow
  /\ \E late \in Lateness, throws \in [1..Len(tasks) -> BOOLEAN] :
       /\ \A i \in 1..Len(tasks) : throws[i] => i \in dueAt(now + TickMs + late)
       /\ now' = now + TickMs + late
       /\ tasks' = [i \in 1..Len(tasks) |->
                      IF i \in dueAt(now')
                        THEN rescheduled(tasks[i], now', throws[i])
                        ELSE tasks[i]]
       /\ runLog' = runLog \o runsFrom(1, now', throws)
  /\ UNCHANGED <<chatVars, groveVars, serverVars, netVars, feedVars, nudgeVars,
                 observerVars>>

\* the page is loaded: the tasks are registered and the loop is started
InitScheduler ==
  /\ tasks = RegisteredTasks(0)
  /\ now = 0
  /\ runLog = <<>>
  /\ NoObserver
  /\ ChatIdle
  /\ GroveIdle
  /\ ServerStarted /\ apiKey = FALSE
  /\ FeedIdle

NextScheduler == SchedulerTick

\* the task loop of the page until its clock has passed MaxNow
SpecScheduler == InitScheduler /\ [][NextScheduler]_vars

\* the times of the runs of the task id in the log log, in order
runTimes(log, id) ==
  LET mine == SelectSeq(log, LAMBDA r : r.id = id)
  IN  [k \in 1..Len(mine) |-> mine[k].at]

\* the number of runs of the task id at time at in the log log
runsAt(log, id, at) ==
  Len(SelectSeq(log, LAMBDA r : r.id = id /\ r.at = at))

\* C30: on every tick each task that is due runs exactly once, whether its
\* body throws or not, and is rescheduled to the time of the tick plus its
\* interval; a task that is not due does not run and keeps its time; a task
\* is never scheduled further than its interval after the latest tick, so a
\* throw takes no later run away; and two consecutive runs of a task are at
\* least its interval apart.
C30_FastTaskLoop ==
  /\ [][\A i \in 1..Len(tasks) :
          IF i \in dueAt(now')
            THEN /\ runsAt(runLog', tasks[i].id, now') = 1
                 /\ tasks'[i].next = now' + tasks[i].intervalMs
            ELSE /\ runsAt(runLog', tasks[i].id, now') = 0
                 /\ tasks'[i] = tasks[i]]_vars
  /\ [][SubSeq(runLog', 1, Len(runLog)) = runLog]_vars
  /\ [](\A i \in 1..Len(tasks) :
          /\ tasks[i].next <= now + tasks[i].intervalMs
          /\ \A k \in 2..Len(runTimes(runLog, tasks[i].id)) :
               runTimes(runLog, tasks[i].id)[k]
                 - runTimes(runLog, tasks[i].id)[k - 1] >= tasks[i].intervalMs)

\* C30, a state of its case: in the latest tick the body of pulse has thrown
\* and weather, due in the same tick, has run after it; pulse had thrown in
\* its run before as well
C30_ThrowingTaskRunsAgain ==
  /\ Len(runLog) >= 4
  /\ runLog[Len(runLog)] = [id |-> "weather", at |-> now, threw |-> FALSE]
  /\ runLog[Len(runLog) - 1] = [id |-> "pulse", at |-> now, threw |-> TRUE]
  /\ \E k \in 1..(Len(runLog) - 2) :
       runLog[k].id = "pulse" /\ runLog[k].threw /\ runLog[k].at < now

(***************************************************************************)
(* The registry of observers (specification SpecKeepAlive)                 *)
(***************************************************************************)
\* the keep-alive writes followed
MaxPings == 2

\* the keep-alive writes so far
pingsWritten == SelectSeq(journal, LAMBDA e : e.op = "ping")

\* setInterval(() => { try { res.write(`: ping\n\n`) } catch {} }, 30000):
\* the interval of an observer fires
Ping ==
  /\ Len(pingsWritten) < MaxPings
  /\ \E h \in pings :
       journal' = Append(journal, [op |-> "ping",
                                   by |-> [kind |-> "interval", n |-> h],
                                   client |-> h, ok |-> h \notin broken])
  /\ UNCHANGED <<sseClients, broken, awaiting>>
  /\ UNCHANGED <<chatVars, groveVars, serverVars, netVars, nudgeVars,
                 schedulerVars, observerVars>>

NextKeepAlive ==
  \/ served < MaxEvents /\ PostCommandLogs
  \/ Connect \/ Close \/ Breaks \/ Ping

\* the inspector server storing up to MaxEvents command logs and writing
\* up to MaxPings keep-alives while up to MaxClients observers connect,
\* fail and leave
SpecKeepAlive == InitObservers /\ [][NextKeepAlive]_vars

\* the handles of the observers that have connected and not closed
openHandles ==
  {connections[k].handle :
     k \in {x \in 1..Len(connections) : ~connections[x].closed}}

\* the handles of the observers whose close event has been handled
closedHandles ==
  {connections[k].handle :
     k \in {x \in 1..Len(connections) : connections[x].closed}}

\* the handles the entry e of the journal attempts a write on
attemptedOn(e) ==
  IF e.op = "ping" THEN {e.client}
  ELSE IF e.op = "broadcast"
    THEN {e.clients[i] : i \in 1..Len(e.clients)}
  ELSE {}

\* C31: the handle set holds exactly the observers that have connected and
\* not closed; no write of an event or of a keep-alive is attempted on a
\* handle whose close event has been handled; and the keep-alive interval
\* of every connected observer is running (and of no other handle).
C31_ObserverRegistry ==
  /\ [](handles = openHandles)
  /\ [](pings = openHandles)
  /\ [][/\ SubSeq(journal', 1, Len(journal)) = journal
        /\ \A i \in (Len(journal) + 1)..Len(journal') :
             attemptedOn(journal'[i]) \cap closedHandles = {}]_vars

\* C31, a state of its case: the first observer has closed, and after that
\* an event and a keep-alive have been written to the second one
C31_WritesAfterClose ==
  /\ closedHandles = {1} /\ openHandles = {2}
  /\ \E i \in 1..Len(journal) :
       journal[i].op = "broadcast" /\ journal[i].clients = <<2>>
  /\ \E i \in 1..Len(journal) :
       journal[i].op = "ping" /\ journal[i].client = 2

(***************************************************************************)
(* The records of overlapping ticks (specification SpecNudge)              *)
(***************************************************************************)
\* the entry e of the journal is written by a tick after the answer of the
\* agent endpoint: the row of a message of the agent, or the nudge_reply log
isReplyRecord(e) ==
  /\ e.op = "insert" /\ e.by.kind = "tick"
  /\ \/ e.table = "messages" /\ e.row.role = "agent"
     \/ e.table = "command_logs" /\ e.row.command = "nudge_reply"

\* the nudge number and the category the reply record e carries
attributionOf(e) ==
  IF e.table = "messages"
    THEN [nudge |-> e.row.meta.nudge, type |-> e.row.meta.type]
    ELSE [nudge |-> e.row.nudge, type |-> e.row.type]

\* the nudge_send entries of the journal
sendEntries ==
  SelectSeq(journal, LAMBDA e : /\ e.op = "insert" /\ e.by.kind = "tick"
                                /\ e.table = "command_logs"
                                /\ e.row.command = "nudge_send")

replyRecords == SelectSeq(journal, isReplyRecord)

\* C32, as the specification states it: every record a tick writes after
\* the answer of the agent endpoint carries the nudge number and the
\* category of the nudge_send entry of that tick.
C32_NudgeAttribution ==
  \A i \in 1..Len(replyRecords) :
    \E k \in 1..Len(sendEntries) :
      /\ sendEntries[k].by = replyRecords[i].by
      /\ attributionOf(replyRecords[i]).nudge = sendEntries[k].row.nudge
      /\ attributionOf(replyRecords[i]).type = sendEntries[k].row.type

\* C32, the behaviour that refutes it: the second tick has fired while the
\* first one awaited its answer, and the nudge_reply entry of the first
\* tick, sent as nudge 1, carries the nudge number 2
C32_ReplyOfFirstCountedSecond ==
  /\ nudgeCount = 2
  /\ \E k \in 1..Len(sendEntries) :
       sendEntries[k].by = Tick(1) /\ sendEntries[k].row.nudge = 1
  /\ \E i \in 1..Len(replyRecords) :
       /\ replyRecords[i].by = Tick(1)
       /\ replyRecords[i].table = "command_logs"
       /\ replyRecords[i].row.nudge = 2

(***************************************************************************)
(* Events of creation and rows (specification SpecServer)                  *)
(***************************************************************************)
\* the number of events evt broadcast so far
broadcastsOf(evt) == Cardinality({i \in 1..Len(events) : events[i] = evt})

\* C33, as the specification states it: every deku_nuts:created event
\* follows the insertion of a new row by its request, so there are never
\* more such events than rows of deku_nuts, and none while the table is
\* empty.
C33_NoPhantomCreation ==
  /\ broadcastsOf("deku_nuts:created") <= Len(deku_nuts)
  /\ (events # <<>> /\ events[Len(events)] = "deku_nuts:created")
       => deku_nuts # <<>>

\* C33, the request that refutes it: POST /api/deku-nuts without a body
\* is answered with 200 and broadcasts deku_nuts:created, and no row has
\* been inserted
C33_EventWithoutRow ==
  /\ served = 1
  /\ responses[1].url = "deku-nuts" /\ responses[1].request = <<>>
  /\ responses[1].status = 200
  /\ events = <<"deku_nuts:created">>
  /\ deku_nuts = <<>>

(***************************************************************************)
(* Messages of creation (specification Spec)                               *)
(***************************************************************************)
\* the messages "Created tree <name> (id <id>)" posted so far
creationMessages ==
  {p \in 1..Len(requests) :
     requests[p].url = "messages" /\ requests[p].about = "tree"}

\* C34, as the specification states it: every message "Created tree <name>
\* (id <id>)" names a tree the endpoint has answered with, that is a row it
\* has persisted; none is posted for an item the endpoint answered with an
\* error.
C34_TruthfulCreationMessages ==
  \A p \in creationMessages : requests[p].named

\* C34, the behaviour that refutes it: "make a tree" is typed, the tree
\* endpoint has answered the only fetch with its error object, and the
\* handler is done having posted the message of creation, which names no
\* tree ("Created tree undefined (id undefined)")
C34_CreatedTreeUndefined ==
  /\ input = <<"m", "a", "k", "e", " ", "a", " ", "t", "r", "e", "e">>
  /\ pc = "done"
  /\ Cardinality({p \in 1..Len(requests) : requests[p].url = "trees"}) = 1
  /\ Cardinality(creationMessages) = 1
  /\ \A p \in creationMessages : ~requests[p].named

(***************************************************************************)
(* A deku nut submitted again (specification SpecServer)                   *)
(***************************************************************************)
\* the ids of the rows of deku_nuts
storedIds == {deku_nuts[i].id : i \in 1..Len(deku_nuts)}

\* the body parsed carries an id that is stored already
idStored(body) ==
  /\ ~bodyThrows(body)
  /\ Truthy(dekuId(body))
  /\ dekuId(body).v \in storedIds

\* the step is a request to POST /api/deku-nuts whose body carries an id
\* that is stored already
resubmits ==
  /\ served' = served + 1
  /\ Len(responses') = Len(responses) + 1
  /\ responses'[Len(responses')].url = "deku-nuts"
  /\ idStored(parseBody(responses'[Len(responses')].request))

\* C35: a request to POST /api/deku-nuts with an id that is stored already
\* leaves every row of deku_nuts as it is, the one of that id included,
\* adds none, and changes no row of trees and no preference: a step that
\* changes any of these is no such request.
C35_DuplicateLeavesStore ==
  [][(deku_nuts' # deku_nuts \/ trees' # trees \/ preferences' # preferences)
       => ~resubmits]_vars

\* C35, a state of its case: the id "a" was submitted with base 1 and then
\* with base 2, both requests were answered with 200, and the only row
\* has base 1
C35_SecondBaseIgnored ==
  /\ served = 2 /\ Len(responses) = 2
  /\ \A k \in 1..2 : responses[k].url = "deku-nuts" /\ responses[k].status = 200
  /\ Len(deku_nuts) = 1
  /\ deku_nuts[1].id = <<"a">> /\ deku_nuts[1].base = JNum(1)
  /\ dekuBase(parseBody(responses[1].request)) = JNum(1)
  /\ dekuBase(parseBody(responses[2].request)) = JNum(2)

(***************************************************************************)
(* The frame of an update of the preferences (specification SpecServer)    *)
(***************************************************************************)
\* the fields of the preferences the body parsed carries with a valid
\* value: a boolean magic, a theme 'light' or 'dark', a finite textSize
validFields(body) ==
  IF bodyThrows(body) THEN {}
  ELSE {f \in {"magic"} : Prop(body, k_magic).t = "boolean"}
       \cup {f \in {"theme"} :
               Prop(body, k_theme) \in {JStr(s_light), JStr(s_dark)}}
       \cup {f \in {"textSize"} :
               Prop(body, k_textSize).t \in {"number", "decimal"}}

\* the fields of the preferences the step changes
changedFields ==
  {f \in {"magic"} : preferences'.magic # preferences.magic}
  \cup {f \in {"theme"} : preferences'.theme # preferences.theme}
  \cup {f \in {"textSize"} : preferences'.textSize # preferences.textSize}

\* the step with the response r, the last one, keeps the frame
framed(r, body) ==
  /\ changedFields \subseteq validFields(body)
  /\ body = JError => r.status = 400

\* C36: a request to POST /api/prefs changes no field of the preferences
\* but those its body carries with a valid value, and a body that is not
\* valid JSON changes none and is answered with status 400; no other
\* request changes a preference.
C36_PreferencesFrame ==
  [][IF /\ Len(responses') = Len(responses) + 1
        /\ responses'[Len(responses')].url = "prefs"
       THEN framed(responses'[Len(responses')],
                   parseBody(responses'[Len(responses')].request))
       ELSE preferences' = preferences]_vars

\* C36, a state of its case: magic was switched off by one request, a
\* second request with the invalid theme 1 was answered with 200, and the
\* preferences keep magic off, the theme dark and the text size 16
C36_InvalidThemeKept ==
  /\ served = 2 /\ Len(responses) = 2
  /\ \A k \in 1..2 : responses[k].url = "prefs" /\ responses[k].status = 200
  /\ responses[2].request =
       <<"{", "\"", "t", "h", "e", "m", "e", "\"", ":", "1", "}">>
  /\ preferences = [magic |-> FALSE, theme |-> s_dark, textSize |-> JNum(16)]

(***************************************************************************)
(* A text typed and the same text replied (specification Spec)             *)
(***************************************************************************)
\* the actions logged in rs, in order: kind, index and total of each
actionsLogged(rs) ==
  [k \in 1..Len(SelectSeq(rs, LAMBDA r : r.url = "command-logs")) |->
     [kind |-> SelectSeq(rs, LAMBDA r : r.url = "command-logs")[k].command,
      index |-> SelectSeq(rs, LAMBDA r : r.url = "command-logs")[k].index,
      total |-> SelectSeq(rs, LAMBDA r : r.url = "command-logs")[k].total]]

\* the actions of the items, in order: kind, index and total of each
actionsOf(items) ==
  [k \in 1..Len(items) |->
     [kind |-> items[k].kind, index |-> items[k].index,
      total |-> items[k].total]]

\* the reply of the agent is one message, with a text
repliedText ==
  IF agentData.t = "array" /\ Len(agentData.v) = 1
    THEN TextOf(agentData.v[1])
    ELSE <<>>

\* C37, as the specification states it: when the handler is done with a
\* reply of the agent of one message, whose text the handler would not
\* forward had the user typed it, the actions it has executed are the
\* actions it resolves for that text typed by the user, with the same
\* kinds, index and total values.
C37_SameInterpretation ==
  (/\ pc = "done" /\ input = s_hi
   /\ repliedText # <<>>
   /\ ~UserPlan(repliedText).forward)
    => actionsLogged(requests) = actionsOf(UserPlan(repliedText).items)

\* C37, the text that refutes it: the agent has replied "make 2 deku nuts"
\* and the handler is done with one deku nut created, without index and
\* total, where the same text typed by the user resolves to a batch of two
C37_TwoNutsRepliedOneMade ==
  /\ pc = "done" /\ input = s_hi
  /\ agentData = JArr(<<Message(s_make_2_deku_nuts)>>)
  /\ actionsLogged(requests) = <<[kind |-> "deku", index |-> 0, total |-> 0]>>
  /\ actionsOf(UserPlan(s_make_2_deku_nuts).items)
       = <<[kind |-> "deku", index |-> 1, total |-> 2],
           [kind |-> "deku", index |-> 2, total |-> 2]>>

(***************************************************************************)
(* The places the chain compares (specification SpecChain)                 *)
(***************************************************************************)
s_make_a_tree_then_make_a_teku ==
  <<"m", "a", "k", "e", " ", "a", " ", "t", "r", "e", "e", " ", "t", "h", "e", "n", " ", "m", "a", "k", "e", " ", "a", " ", "t", "e", "k", "u">>

\* lines of a tree phrase and a deku phrase joined in either order, the
\* deku phrase naming a deku or a teku
ChainLines ==
  { <<"d", "e", "k", "u", " ", "a", "n", "d", " ", "g", "r", "o", "w", " ", "a", " ", "s", "a", "p", "l", "i", "n", "g">>,
    <<"d", "e", "k", "u", " ", "a", "n", "d", " ", "m", "a", "k", "e", " ", "3", " ", "t", "r", "e", "e", "s">>,
    <<"d", "e", "k", "u", " ", "a", "n", "d", " ", "m", "a", "k", "e", " ", "a", " ", "t", "r", "e", "e">>,
    <<"d", "e", "k", "u", " ", "a", "n", "d", " ", "p", "l", "a", "n", "t", " ", "a", " ", "s", "a", "p", "l", "i", "n", "g">>,
    <<"d", "e", "k", "u", " ", "t", "h", "e", "n", " ", "g", "r", "o", "w", " ", "a", " ", "s", "a", "p", "l", "i", "n", "g">>,
    <<"d", "e", "k", "u", " ", "t", "h", "e", "n", " ", "m", "a", "k", "e", " ", "3", " ", "t", "r", "e", "e", "s">>,
    <<"d", "e", "k", "u", " ", "t", "h", "e", "n", " ", "m", "a", "k", "e", " ", "a", " ", "t", "r", "e", "e">>,
    <<"d", "e", "k", "u", " ", "t", "h", "e", "n", " ", "p", "l", "a", "n", "t", " ", "a", " ", "s", "a", "p", "l", "i", "n", "g">>,
    <<"g", "r", "o", "w", " ", "a", " ", "s", "a", "p", "l", "i", "n", "g", " ", "a", "n", "d", " ", "d", "e", "k", "u">>,
    <<"g", "r", "o", "w", " ", "a", " ", "s", "a", "p", "l", "i", "n", "g", " ", "a", "n", "d", " ", "m", "a", "k", "e", " ", "2", " ", "d", "e", "k", "u", " ", "n", "u", "t", "s">>,
    <<"g", "r", "o", "w", " ", "a", " ", "s", "a", "p", "l", "i", "n", "g", " ", "a", "n", "d", " ", "m", "a", "k", "e", " ", "a", " ", "d", "e", "k", "u">>,
    <<"g", "r", "o", "w", " ", "a", " ", "s", "a", "p", "l", "i", "n", "g", " ", "a", "n", "d", " ", "m", "a", "k", "e", " ", "a", " ", "t", "e", "k", "u">>,
    <<"g", "r", "o", "w", " ", "a", " ", "s", "a", "p", "l", "i", "n", "g", " ", "a", "n", "d", " ", "s", "p", "a", "w", "n", " ", "t", "e", "k", "u">>,
    <<"g", "r", "o", "w", " ", "a", " ", "s", "a", "p", "l", "i", "n", "g", " ", "t", "h", "e", "n", " ", "d", "e", "k", "u">>,
    <<"g", "r", "o", "w", " ", "a", " ", "s", "a", "p", "l", "i", "n", "g", " ", "t", "h", "e", "n", " ", "m", "a", "k", "e", " ", "2", " ", "d", "e", "k", "u", " ", "n", "u", "t", "s">>,
    <<"g", "r", "o", "w", " ", "a", " ", "s", "a", "p", "l", "i", "n", "g", " ", "t", "h", "e", "n", " ", "m", "a", "k", "e", " ", "a", " ", "d", "e", "k", "u">>,
    <<"g", "r", "o", "w", " ", "a", " ", "s", "a", "p", "l", "i", "n", "g", " ", "t", "h", "e", "n", " ", "m", "a", "k", "e", " ", "a", " ", "t", "e", "k", "u">>,
    <<"g", "r", "o", "w", " ", "a", " ", "s", "a", "p", "l", "i", "n", "g", " ", "t", "h", "e", "n", " ", "s", "p", "a", "w", "n", " ", "t", "e", "k", "u">>,
    <<"m", "a", "k", "e", " ", "2", " ", "d", "e", "k", "u", " ", "n", "u", "t", "s", " ", "a", "n", "d", " ", "g", "r", "o", "w", " ", "a", " ", "s", "a", "p", "l", "i", "n", "g">>,
    <<"m", "a", "k", "e", " ", "2", " ", "d", "e", "k", "u", " ", "n", "u", "t", "s", " ", "a", "n", "d", " ", "m", "a", "k", "e", " ", "3", " ", "t", "r", "e", "e", "s">>,
    <<"m", "a", "k", "e", " ", "2", " ", "d", "e", "k", "u", " ", "n", "u", "t", "s", " ", "a", "n", "d", " ", "m", "a", "k", "e", " ", "a", " ", "t", "r", "e", "e">>,
    <<"m", "a", "k", "e", " ", "2", " ", "d", "e", "k", "u", " ", "n", "u", "t", "s", " ", "a", "n", "d", " ", "p", "l", "a", "n", "t", " ", "a", " ", "s", "a", "p", "l", "i", "n", "g">>,
    <<"m", "a", "k", "e", " ", "2", " ", "d", "e", "k", "u", " ", "n", "u", "t", "s", " ", "t", "h", "e", "n", " ", "g", "r", "o", "w", " ", "a", " ", "s", "a", "p", "l", "i", "n", "g">>,
    <<"m", "a", "k", "e", " ", "2", " ", "d", "e", "k", "u", " ", "n", "u", "t", "s", " ", "t", "h", "e", "n", " ", "m", "a", "k", "e", " ", "3", " ", "t", "r", "e", "e", "s">>,
    <<"m", "a", "k", "e", " ", "2", " ", "d", "e", "k", "u", " ", "n", "u", "t", "s", " ", "t", "h", "e", "n", " ", "m", "a", "k", "e", " ", "a", " ", "t", "r", "e", "e">>,
    <<"m", "a", "k", "e", " ", "2", " ", "d", "e", "k", "u", " ", "n", "u", "t", "s", " ", "t", "h", "e", "n", " ", "p", "l", "a", "n", "t", " ", "a", " ", "s", "a", "p", "l", "i", "n", "g">>,
    <<"m", "a", "k", "e", " ", "3", " ", "t", "r", "e", "e", "s", " ", "a", "n", "d", " ", "d", "e", "k", "u">>,
    <<"m", "a", "k", "e", " ", "3", " ", "t", "r", "e", "e", "s", " ", "a", "n", "d", " ", "m", "a", "k", "e", " ", "2", " ", "d", "e", "k", "u", " ", "n", "u", "t", "s">>,
    <<"m", "a", "k", "e", " ", "3", " ", "t", "r", "e", "e", "s", " ", "a", "n", "d", " ", "m", "a", "k", "e", " ", "a", " ", "d", "e", "k", "u">>,
    <<"m", "a", "k", "e", " ", "3", " ", "t", "r", "e", "e", "s", " ", "a", "n", "d", " ", "m", "a", "k", "e", " ", "a", " ", "t", "e", "k", "u">>,
    <<"m", "a", "k", "e", " ", "3", " ", "t", "r", "e", "e", "s", " ", "a", "n", "d", " ", "s", "p", "a", "w", "n", " ", "t", "e", "k", "u">>,
    <<"m", "a", "k", "e", " ", "3", " ", "t", "r", "e", "e", "s", " ", "t", "h", "e", "n", " ", "d", "e", "k", "u">>,
    <<"m", "a", "k", "e", " ", "3", " ", "t", "r", "e", "e", "s", " ", "t", "h", "e", "n", " ", "m", "a", "k", "e", " ", "2", " ", "d", "e", "k", "u", " ", "n", "u", "t", "s">>,
    <<"m", "a", "k", "e", " ", "3", " ", "t", "r", "e", "e", "s", " ", "t", "h", "e", "n", " ", "m", "a", "k", "e", " ", "a", " ", "d", "e", "k", "u">>,
    <<"m", "a", "k", "e", " ", "3", " ", "t", "r", "e", "e", "s", " ", "t", "h", "e", "n", " ", "m", "a", "k", "e", " ", "a", " ", "t", "e", "k", "u">>,
    <<"m", "a", "k", "e", " ", "3", " ", "t", "r", "e", "e", "s", " ", "t", "h", "e", "n", " ", "s", "p", "a", "w", "n", " ", "t", "e", "k", "u">>,
    <<"m", "a", "k", "e", " ", "a", " ", "d", "e", "k", "u", " ", "a", "n", "d", " ", "g", "r", "o", "w", " ", "a", " ", "s", "a", "p", "l", "i", "n", "g">>,
    <<"m", "a", "k", "e", " ", "a", " ", "d", "e", "k", "u", " ", "a", "n", "d", " ", "m", "a", "k", "e", " ", "3", " ", "t", "r", "e", "e", "s">>,
    <<"m", "a", "k", "e", " ", "a", " ", "d", "e", "k", "u", " ", "a", "n", "d", " ", "m", "a", "k", "e", " ", "a", " ", "t", "r", "e", "e">>,
    <<"m", "a", "k", "e", " ", "a", " ", "d", "e", "k", "u", " ", "a", "n", "d", " ", "p", "l", "a", "n", "t", " ", "a", " ", "s", "a", "p", "l", "i", "n", "g">>,
    <<"m", "a", "k", "e", " ", "a", " ", "d", "e", "k", "u", " ", "t", "h", "e", "n", " ", "g", "r", "o", "w", " ", "a", " ", "s", "a", "p", "l", "i", "n", "g">>,
    <<"m", "a", "k", "e", " ", "a", " ", "d", "e", "k", "u", " ", "t", "h", "e", "n", " ", "m", "a", "k", "e", " ", "3", " ", "t", "r", "e", "e", "s">>,
    <<"m", "a", "k", "e", " ", "a", " ", "d", "e", "k", "u", " ", "t", "h", "e", "n", " ", "m", "a", "k", "e", " ", "a", " ", "t", "r", "e", "e">>,
    <<"m", "a", "k", "e", " ", "a", " ", "d", "e", "k", "u", " ", "t", "h", "e", "n", " ", "p", "l", "a", "n", "t", " ", "a", " ", "s", "a", "p", "l", "i", "n", "g">>,
    <<"m", "a", "k", "e", " ", "a", " ", "t", "e", "k", "u", " ", "a", "n", "d", " ", "g", "r", "o", "w", " ", "a", " ", "s", "a", "p", "l", "i", "n", "g">>,
    <<"m", "a", "k", "e", " ", "a", " ", "t", "e", "k", "u", " ", "a", "n", "d", " ", "m", "a", "k", "e", " ", "3", " ", "t", "r", "e", "e", "s">>,
    <<"m", "a", "k", "e", " ", "a", " ", "t", "e", "k", "u", " ", "a", "n", "d", " ", "m", "a", "k", "e", " ", "a", " ", "t", "r", "e", "e">>,
    <<"m", "a", "k", "e", " ", "a", " ", "t", "e", "k", "u", " ", "a", "n", "d", " ", "p", "l", "a", "n", "t", " ", "a", " ", "s", "a", "p", "l", "i", "n", "g">>,
    <<"m", "a", "k", "e", " ", "a", " ", "t", "e", "k", "u", " ", "t", "h", "e", "n", " ", "g", "r", "o", "w", " ", "a", " ", "s", "a", "p", "l", "i", "n", "g">>,
    <<"m", "a", "k", "e", " ", "a", " ", "t", "e", "k", "u", " ", "t", "h", "e", "n", " ", "m", "a", "k", "e", " ", "3", " ", "t", "r", "e", "e", "s">>,
    <<"m", "a", "k", "e", " ", "a", " ", "t", "e", "k", "u", " ", "t", "h", "e", "n", " ", "m", "a", "k", "e", " ", "a", " ", "t", "r", "e", "e">>,
    <<"m", "a", "k", "e", " ", "a", " ", "t", "e", "k", "u", " ", "t", "h", "e", "n", " ", "p", "l", "a", "n", "t", " ", "a", " ", "s", "a", "p", "l", "i", "n", "g">>,
    <<"m", "a", "k", "e", " ", "a", " ", "t", "r", "e", "e", " ", "a", "n", "d", " ", "d", "e", "k", "u">>,
    <<"m", "a", "k", "e", " ", "a", " ", "t", "r", "e", "e", " ", "a", "n", "d", " ", "m", "a", "k", "e", " ", "2", " ", "d", "e", "k", "u", " ", "n", "u", "t", "s">>,
    <<"m", "a", "k", "e", " ", "a", " ", "t", "r", "e", "e", " ", "a", "n", "d", " ", "m", "a", "k", "e", " ", "a", " ", "d", "e", "k", "u">>,
    <<"m", "a", "k", "e", " ", "a", " ", "t", "r", "e", "e", " ", "a", "n", "d", " ", "m", "a", "k", "e", " ", "a", " ", "t", "e", "k", "u">>,
    <<"m", "a", "k", "e", " ", "a", " ", "t", "r", "e", "e", " ", "a", "n", "d", " ", "s", "p", "a", "w", "n", " ", "t", "e", "k", "u">>,
    <<"m", "a", "k", "e", " ", "a", " ", "t", "r", "e", "e", " ", "t", "h", "e", "n", " ", "d", "e", "k", "u">>,
    <<"m", "a", "k", "e", " ", "a", " ", "t", "r", "e", "e", " ", "t", "h", "e", "n", " ", "m", "a", "k", "e", " ", "2", " ", "d", "e", "k", "u", " ", "n", "u", "t", "s">>,
    <<"m", "a", "k", "e", " ", "a", " ", "t", "r", "e", "e", " ", "t", "h", "e", "n", " ", "m", "a", "k", "e", " ", "a", " ", "d", "e", "k", "u">>,
    <<"m", "a", "k", "e", " ", "a", " ", "t", "r", "e", "e", " ", "t", "h", "e", "n", " ", "m", "a", "k", "e", " ", "a", " ", "t", "e", "k", "u">>,
    <<"m", "a", "k", "e", " ", "a", " ", "t", "r", "e", "e", " ", "t", "h", "e", "n", " ", "s", "p", "a", "w", "n", " ", "t", "e", "k", "u">>,
    <<"p", "l", "a", "n", "t", " ", "a", " ", "s", "a", "p", "l", "i", "n", "g", " ", "a", "n", "d", " ", "d", "e", "k", "u">>,
    <<"p", "l", "a", "n", "t", " ", "a", " ", "s", "a", "p", "l", "i", "n", "g", " ", "a", "n", "d", " ", "m", "a", "k", "e", " ", "2", " ", "d", "e", "k", "u", " ", "n", "u", "t", "s">>,
    <<"p", "l", "a", "n", "t", " ", "a", " ", "s", "a", "p", "l", "i", "n", "g", " ", "a", "n", "d", " ", "m", "a", "k", "e", " ", "a", " ", "d", "e", "k", "u">>,
    <<"p", "l", "a", "n", "t", " ", "a", " ", "s", "a", "p", "l", "i", "n", "g", " ", "a", "n", "d", " ", "m", "a", "k", "e", " ", "a", " ", "t", "e", "k", "u">>,
    <<"p", "l", "a", "n", "t", " ", "a", " ", "s", "a", "p", "l", "i", "n", "g", " ", "a", "n", "d", " ", "s", "p", "a", "w", "n", " ", "t", "e", "k", "u">>,
    <<"p", "l", "a", "n", "t", " ", "a", " ", "s", "a", "p", "l", "i", "n", "g", " ", "t", "h", "e", "n", " ", "d", "e", "k", "u">>,
    <<"p", "l", "a", "n", "t", " ", "a", " ", "s", "a", "p", "l", "i", "n", "g", " ", "t", "h", "e", "n", " ", "m", "a", "k", "e", " ", "2", " ", "d", "e", "k", "u", " ", "n", "u", "t", "s">>,
    <<"p", "l", "a", "n", "t", " ", "a", " ", "s", "a", "p", "l", "i", "n", "g", " ", "t", "h", "e", "n", " ", "m", "a", "k", "e", " ", "a", " ", "d", "e", "k", "u">>,
    <<"p", "l", "a", "n", "t", " ", "a", " ", "s", "a", "p", "l", "i", "n", "g", " ", "t", "h", "e", "n", " ", "m", "a", "k", "e", " ", "a", " ", "t", "e", "k", "u">>,
    <<"p", "l", "a", "n", "t", " ", "a", " ", "s", "a", "p", "l", "i", "n", "g", " ", "t", "h", "e", "n", " ", "s", "p", "a", "w", "n", " ", "t", "e", "k", "u">>,
    <<"s", "p", "a", "w", "n", " ", "t", "e", "k", "u", " ", "a", "n", "d", " ", "g", "r", "o", "w", " ", "a", " ", "s", "a", "p", "l", "i", "n", "g">>,
    <<"s", "p", "a", "w", "n", " ", "t", "e", "k", "u", " ", "a", "n", "d", " ", "m", "a", "k", "e", " ", "3", " ", "t", "r", "e", "e", "s">>,
    <<"s", "p", "a", "w", "n", " ", "t", "e", "k", "u", " ", "a", "n", "d", " ", "m", "a", "k", "e", " ", "a", " ", "t", "r", "e", "e">>,
    <<"s", "p", "a", "w", "n", " ", "t", "e", "k", "u", " ", "a", "n", "d", " ", "p", "l", "a", "n", "t", " ", "a", " ", "s", "a", "p", "l", "i", "n", "g">>,
    <<"s", "p", "a", "w", "n", " ", "t", "e", "k", "u", " ", "t", "h", "e", "n", " ", "g", "r", "o", "w", " ", "a", " ", "s", "a", "p", "l", "i", "n", "g">>,
    <<"s", "p", "a", "w", "n", " ", "t", "e", "k", "u", " ", "t", "h", "e", "n", " ", "m", "a", "k", "e", " ", "3", " ", "t", "r", "e", "e", "s">>,
    <<"s", "p", "a", "w", "n", " ", "t", "e", "k", "u", " ", "t", "h", "e", "n", " ", "m", "a", "k", "e", " ", "a", " ", "t", "r", "e", "e">>,
    <<"s", "p", "a", "w", "n", " ", "t", "e", "k", "u", " ", "t", "h", "e", "n", " ", "p", "l", "a", "n", "t", " ", "a", " ", "s", "a", "p", "l", "i", "n", "g">> }

\* one of the lines of ChainLines is typed
InitChain ==
  /\ input \in ChainLines
  /\ agentData \in BasicReplies
  /\ pc = "question"
  /\ todo = <<>>
  /\ pending = <<>>
  /\ requests = <<>>
  /\ nextId = 1
  /\ arrived = <<>>
  /\ GroveIdle
  /\ ServerStarted /\ apiKey = FALSE
  /\ FeedIdle
  /\ PageClosed
  /\ NoObserver

\* no line of ChainLines is forwarded to the agent
NextChain == HandleUserInput \/ TreeResponse

\* the chat loop serving one line of ChainLines
SpecChain == InitChain /\ [][NextChain]_vars

\* the chain branch is taken for the line inp: no explicit command, and
\* both intents detected
chainTaken(inp) ==
  /\ Len(findExplicitCommands(inp)) = 0
  /\ wantsTree(toLowerCase(inp))
  /\ wantsDeku(toLowerCase(inp))

\* lower.search(/tree|sapling/)
idxTree(inp) == RegexSearch(treeKeyword, toLowerCase(inp))

\* lower.search(/\bdeku\b/)
idxDeku(inp) == RegexSearch(dekuWord, toLowerCase(inp))

\* C38, as the specification states it: when the handler has taken the
\* chain branch for the line, the two places it has compared are both
\* found and differ.
C38_RealPositions ==
  (pc # "question" /\ chainTaken(input))
    => /\ idxTree(input) >= 0
       /\ idxDeku(input) >= 0
       /\ idxTree(input) # idxDeku(input)

\* C38, the line that refutes it: "make a tree then make a teku" takes the
\* chain branch, the word deku is not found (-1) while the tree keyword is
\* at place 7, and the handler is done having run the deku action first
C38_TekuComparedAsMissing ==
  /\ input = s_make_a_tree_then_make_a_teku
  /\ pc = "done"
  /\ chainTaken(input)
  /\ idxTree(input) = 7 /\ idxDeku(input) = -1
  /\ actionsLogged(requests)
       = <<[kind |-> "deku", index |-> 1, total |-> 1],
           [kind |-> "tree", index |-> 1, total |-> 1]>>

(***************************************************************************)
(* The number of creations of one line (specification SpecGuard)           *)
(***************************************************************************)
s_grove_101 ==
  <<"C", "O", "M", "M", "A", "N", "D", ":", " ", "T", "R", "E", "E", ".", "G", "R", "O", "W", "_", "G", "R", "O", "V", "E", " ", "{", "\"", "c", "o", "u", "n", "t", "\"", ":", "1", "0", "1", "}">>

\* lines asking for 100 creations or more: by a repeat count, and by the
\* count or per_type of a plan
GuardLines ==
  { <<"C", "O", "M", "M", "A", "N", "D", ":", " ", "T", "R", "E", "E", ".", "G", "R", "O", "W", "_", "G", "R", "O", "V", "E", " ", "{", "\"", "c", "o", "u", "n", "t", "\"", ":", "1", "0", "1", "}">>,
    <<"C", "O", "M", "M", "A", "N", "D", ":", " ", "T", "R", "E", "E", ".", "G", "R", "O", "W", "_", "F", "O", "R", "E", "S", "T", " ", "{", "\"", "t", "r", "e", "e", "_", "t", "y", "p", "e", "s", "\"", ":", "[", "\"", "o", "a", "k", "\"", ",", "\"", "p", "i", "n", "e", "\"", "]", ",", "\"", "p", "e", "r", "_", "t", "y", "p", "e", "\"", ":", "5", "1", "}">>,
    <<"C", "O", "M", "M", "A", "N", "D", ":", " ", "T", "R", "E", "E", ".", "G", "R", "O", "W", "_", "G", "R", "O", "V", "E", " ", "{", "\"", "c", "o", "u", "n", "t", "\"", ":", "1", "0", "0", "}">>,
    <<"m", "a", "k", "e", " ", "1", "0", "0", " ", "t", "r", "e", "e", "s">>,
    <<"m", "a", "k", "e", " ", "1", "0", "1", " ", "t", "r", "e", "e", "s">>,
    <<"m", "a", "k", "e", " ", "1", "0", "0", " ", "d", "e", "k", "u", " ", "n", "u", "t", "s">>,
    <<"m", "a", "k", "e", " ", "1", "0", "1", " ", "d", "e", "k", "u", " ", "n", "u", "t", "s">> }

\* one of the lines of GuardLines is typed
InitGuard ==
  /\ input \in GuardLines
  /\ agentData = Rejected
  /\ pc = "question"
  /\ todo = <<>>
  /\ pending = <<>>
  /\ requests = <<>>
  /\ nextId = 1
  /\ arrived = <<>>
  /\ GroveIdle
  /\ ServerStarted /\ apiKey = FALSE
  /\ FeedIdle
  /\ PageClosed
  /\ NoObserver

\* the tree endpoint answers the awaited fetch with its error object
TreeRefused == TreeAnswers("error")

NextGuard == HandleUserInput \/ TreeRefused

\* the chat loop serving one line of GuardLines
SpecGuard == InitGuard /\ [][NextGuard]_vars

\* C39, as the specification states it: one line causes at most MaxRepeat
\* requests of creation of a tree and at most MaxRepeat of a deku nut.
C39_CreationGuardrail ==
  /\ requestsTo("trees") <= MaxRepeat
  /\ requestsTo("deku-nuts") <= MaxRepeat

\* C39, the line that refutes it: COMMAND: TREE.GROW_GROVE {"count":101}
\* is typed and the handler is done after 101 requests to the tree endpoint
C39_GroveOfHundredAndOne ==
  /\ input = s_grove_101
  /\ pc = "done"
  /\ requestsTo("trees") = MaxRepeat + 1
====
